---- MODULE Spec2Model ----
(***************************************************************************)
(* Live console ingestion of the Terraria admin panel:                     *)
(*   terraria_admin/extensions.py          console_buffer, console_seq,    *)
(*                                         console_lock, ANSI_ESCAPE       *)
(*   terraria_admin/services/console.py    the Docker-log poller, the file *)
(*                                         poller, check_player_event      *)
(*   terraria_admin/blueprints/console.py  api_console_lines               *)
(*   terraria_admin/services/screen.py     screen_send, screen_cmd_output  *)
(*                                                                         *)
(* Text is a sequence of one-character strings; "ESC" stands for the       *)
(* character 0x1B, "xC3" and "xA9" for the two bytes of a UTF-8 encoded    *)
(* e-acute (decoded to "EAC"), "REPL" for U+FFFD, "BSL" for a backslash,  *)
(* "DQ" for a double quote, "BQ" for a backquote.                          *)
(***************************************************************************)
EXTENDS Integers, Sequences, FiniteSets, Bags, TLC

\* ------------------------------------------------------------------ bounds

\* extensions.py sets MAX_CONSOLE_LINES = 500; the model scales the capacity
\* down so that eviction happens within the explored runs.
MAX_CONSOLE_LINES == 2

\* Chunks the container log stream delivers over the whole run.
MaxChunks == 1

\* Writes the game server makes to the log file over the whole run.
MaxWrites == 1

\* Errors the collaborators raise over the whole run (Docker calls, the
\* notification call).
MaxFaults == 1

\* The calls of screen_send in a run.
MaxSends == 3

\* ------------------------------------------------------------------- text

Min(a, b) == IF a < b THEN a ELSE b
Max(a, b) == IF a > b THEN a ELSE b

UpperCase == <<"A", "B", "C", "D", "E", "F", "G", "H", "I", "J", "K", "L", "M",
               "N", "O", "P", "Q", "R", "S", "T", "U", "V", "W", "X", "Y", "Z">>
LowerCase == <<"a", "b", "c", "d", "e", "f", "g", "h", "i", "j", "k", "l", "m",
               "n", "o", "p", "q", "r", "s", "t", "u", "v", "w", "x", "y", "z">>

Range(s) == {s[i] : i \in 1..Len(s)}

\* str.lower() of one character.
LowerChar(c) ==
    IF \E i \in 1..26 : UpperCase[i] = c
    THEN LowerCase[CHOOSE i \in 1..26 : UpperCase[i] = c]
    ELSE c

\* str.lower()
Lower(s) == [i \in 1..Len(s) |-> LowerChar(s[i])]

\* s[i:] with i >= 0 counted from 0 (the part after the first i characters).
From(s, i) == SubSeq(s, i + 1, Len(s))

\* s.find(sub) + 1: the 1-based place of the first occurrence of sub, 0 if none.
Find(s, sub) ==
    LET hits == {i \in 1..(Len(s) - Len(sub) + 1) :
                    SubSeq(s, i, i + Len(sub) - 1) = sub}
    IN  IF hits = {} THEN 0 ELSE CHOOSE i \in hits : \A j \in hits : i <= j

\* s.rfind(sub) + 1
RFind(s, sub) ==
    LET hits == {i \in 1..(Len(s) - Len(sub) + 1) :
                    SubSeq(s, i, i + Len(sub) - 1) = sub}
    IN  IF hits = {} THEN 0 ELSE CHOOSE i \in hits : \A j \in hits : i >= j

\* sub in s
Contains(s, sub) == Find(s, sub) # 0

\* s.split(sep, 1) for a separator that occurs in s: <<head, rest>>.
SplitFirst(s, sep) ==
    LET i == Find(s, sep)
    IN  <<SubSeq(s, 1, i - 1), From(s, i + Len(sep) - 1)>>

\* s.rsplit(sep, 1)[-1]: the text after the last separator (all of s if none).
RSplitLast(s, sep) ==
    LET i == RFind(s, sep)
    IN  IF i = 0 THEN s ELSE From(s, i + Len(sep) - 1)

\* The characters str.strip() removes.
Whitespace == {" ", "\t", "\n", "\r", "\f"}

\* str.rstrip() in place of str.strip(): the whitespace at the left end is kept.
StripRight(s) ==
    LET keep == {i \in 1..Len(s) : s[i] \notin Whitespace}
    IN  IF keep = {} THEN <<>>
        ELSE SubSeq(s, 1, CHOOSE i \in keep : \A j \in keep : i >= j)

\* str.strip()
Strip(s) ==
    LET keep == {i \in 1..Len(s) : s[i] \notin Whitespace}
    IN  IF keep = {} THEN <<>>
        ELSE SubSeq(s, CHOOSE i \in keep : \A j \in keep : i <= j,
                       CHOOSE i \in keep : \A j \in keep : i >= j)

\* The character classes of ANSI_ESCAPE: ESC followed by one character of
\* 0x40-0x5A or 0x5C-0x5F (AnsiSingle), or ESC [ followed by any number of
\* 0x30-0x3F (CsiParam), any number of 0x20-0x2F (CsiInter) and one character
\* of 0x40-0x7E (CsiFinal).
AnsiSingle == Range(UpperCase) \cup {"@", "BSL", "]", "^", "_"}
CsiParam == {"0", "1", "2", "3", "4", "5", "6", "7", "8", "9",
             ":", ";", "<", "=", ">", "?"}
CsiInter == {" ", "!", "DQ", "#", "$", "%", "&", "'", "(", ")", "*", "+", ",",
             "-", ".", "/"}
CsiFinal == Range(UpperCase) \cup Range(LowerCase)
            \cup {"@", "[", "BSL", "]", "^", "_", "BQ", "{", "|", "}", "~"}

\* The first place at or after i whose character is not in class (Len(s) + 1
\* when the run of class characters reaches the end).
RECURSIVE SkipClass(_, _, _)
SkipClass(s, i, class) ==
    IF i <= Len(s) /\ s[i] \in class THEN SkipClass(s, i + 1, class) ELSE i

\* The length of the match of ANSI_ESCAPE that starts at place i, 0 if none.
AnsiMatchLen(s, i) ==
    IF s[i] # "ESC" \/ i = Len(s) THEN 0
    ELSE IF s[i + 1] \in AnsiSingle THEN 2
    ELSE IF s[i + 1] # "[" THEN 0
    ELSE LET f == SkipClass(s, SkipClass(s, i + 2, CsiParam), CsiInter)
         IN  IF f <= Len(s) /\ s[f] \in CsiFinal THEN f - i + 1 ELSE 0

\* ANSI_ESCAPE.sub of the empty string over s
RECURSIVE AnsiSubFrom(_, _)
AnsiSubFrom(s, i) ==
    IF i > Len(s) THEN <<>>
    ELSE LET n == AnsiMatchLen(s, i)
         IN  IF n > 0 THEN AnsiSubFrom(s, i + n)
             ELSE <<s[i]>> \o AnsiSubFrom(s, i + 1)

ANSI_ESCAPE_sub(s) == AnsiSubFrom(s, 1)

\* bytes.decode as utf-8 with errors=replace of one chunk: the pair xC3 xA9 is
\* one character, a lead byte without its continuation byte and a continuation
\* byte without its lead byte each become U+FFFD.
RECURSIVE DecodeFrom(_, _)
DecodeFrom(b, i) ==
    IF i > Len(b) THEN <<>>
    ELSE IF b[i] = "xC3" /\ i < Len(b) /\ b[i + 1] = "xA9"
         THEN <<"EAC">> \o DecodeFrom(b, i + 2)
    ELSE IF b[i] \in {"xC3", "xA9"} THEN <<"REPL">> \o DecodeFrom(b, i + 1)
    ELSE <<b[i]>> \o DecodeFrom(b, i + 1)

Decode(b) == DecodeFrom(b, 1)

\* ----------------------------------------------------- check_player_event

has_joined == <<"h", "a", "s", " ", "j", "o", "i", "n", "e", "d">>
has_left == <<"h", "a", "s", " ", "l", "e", "f", "t">>
has_disconnected == <<"h", "a", "s", " ", "d", "i", "s", "c", "o", "n", "n",
                      "e", "c", "t", "e", "d">>

\* The event check_player_event notifies for a line: "join", "leave" or "none".
check_player_event(line) ==
    LET lower == Lower(line)
    IN  IF Contains(lower, has_joined) THEN "join"
        ELSE IF Contains(lower, has_left) \/ Contains(lower, has_disconnected)
             THEN "leave"
        ELSE "none"

\* str.split(): the runs of characters of s that are not whitespace.
RECURSIVE Tokens(_)
Tokens(s) ==
    LET t == Strip(s)
        ws == {i \in 1..Len(t) : t[i] \in Whitespace}
    IN  IF t = <<>> THEN <<>>
        ELSE IF ws = {} THEN <<t>>
        ELSE LET i == CHOOSE k \in ws : \A j \in ws : k <= j
             IN  <<SubSeq(t, 1, i - 1)>> \o Tokens(From(t, i))

Someone == <<"S", "o", "m", "e", "o", "n", "e">>

\* _extract_player_name(line, keyword). line.split(keyword)[0] is the text
\* before the first occurrence of keyword, all of line if keyword does not
\* occur in it.
extract_player_name(line, keyword) ==
    LET before == IF Contains(line, keyword)
                  THEN SubSeq(line, 1, Find(line, keyword) - 1)
                  ELSE line
        parts == Tokens(Strip(before))
    IN  IF parts # <<>> THEN parts[Len(parts)] ELSE Someone

\* Two separate tests in place of if / elif: a line with a join phrase and a
\* leave phrase is notified twice.
notifications_both(line) ==
    LET lower == Lower(line)
        key == IF Contains(lower, has_left) THEN has_left ELSE has_disconnected
    IN  (IF Contains(lower, has_joined)
         THEN <<[event |-> "join", name |-> extract_player_name(line, has_joined)]>>
         ELSE <<>>)
        \o (IF Contains(lower, has_left) \/ Contains(lower, has_disconnected)
            THEN <<[event |-> "leave", name |-> extract_player_name(line, key)]>>
            ELSE <<>>)

\* The calls of discord_notify that check_player_event makes for a line, each
\* with its event and the name put into its message.
notifications(line) ==
    LET lower == Lower(line)
    IN  IF Contains(lower, has_joined)
        THEN <<[event |-> "join", name |-> extract_player_name(line, has_joined)]>>
        ELSE IF Contains(lower, has_left) \/ Contains(lower, has_disconnected)
        THEN LET key == IF Contains(lower, has_left) THEN has_left
                        ELSE has_disconnected
             IN  <<[event |-> "leave", name |-> extract_player_name(line, key)]>>
        ELSE <<>>

\* ------------------------------------------------------------------ state

VARIABLES
    console_buffer,   \* extensions.console_buffer: deque(maxlen=MAX_CONSOLE_LINES)
    console_seq,      \* extensions.console_seq
    console_lock,     \* extensions.console_lock: "free" or the thread holding it
    pc_d,             \* Docker-log poller: where _docker_run is
    client,           \* _docker_run: client ("None" or "open")
    pending,          \* _docker_run: pending
    line_d,           \* _docker_run: line
    tmp_d,            \* _docker_run: the value read by console_seq += 1
    pc_f,             \* file poller: where _file_run is
    last_pos,         \* _file_run: last_pos
    pos_f,            \* _file_run: the position of the open file f
    line_f,           \* _file_run: line
    tmp_f,            \* _file_run: the value read by console_seq += 1
    file_exists,      \* LOG_FILE exists on disk
    file_content,     \* the text of LOG_FILE
    pc_r,             \* request thread: where the handler is
    since,            \* api_console_lines: since
    before_seq,       \* screen_cmd_output: before_seq
    buf,              \* api_console_lines / screen_cmd_output: buf
    seq,              \* api_console_lines / screen_cmd_output: seq
    resp,             \* what the handler returned
    delivered,        \* number of chunks the container stream has delivered
    writes,           \* number of writes made to LOG_FILE
    faults,           \* number of errors raised by collaborators
    stream,           \* history: the bytes delivered on the current connection
    emitted,          \* history: the lines _docker_run appended on the current connection
    tailed,           \* history: the lines _file_run appended since last_pos was last 0
    tmod_file,        \* the bytes of the file at tmod_path
    pc_m,             \* parse_tmod_dependencies: where the call is
    tmod_raw,         \* parse_tmod_dependencies: raw
    entries,          \* parse_tmod_dependencies: entries
    file_data_start,  \* parse_tmod_dependencies: file_data_start
    deps,             \* what parse_tmod_dependencies returned
    info,             \* what _parse_info_binary returned: (mod_refs, weak_refs)
    fifo,             \* the FIFO .server-input: "missing", "no_reader" or "reader"
    stdin,            \* the text the game server has received through the FIFO
    cmd_s,            \* screen_send: cmd
    sent,             \* what screen_send returned ("none" before its first call)
    attempts,         \* history: the calls of os.open the last screen_send made
    sends,            \* number of calls of screen_send
    cursor,           \* the polling client: the total of its last response (0 at first)
    received,         \* history: the lines the polling client got, each with its number
    notified,         \* history: the calls of discord_notify each poller made, in order
    submitted,        \* history: the bag of lines the pollers entered "with console_lock" for
    appended,         \* history: every console_buffer.append, in order, with its poller
    numbers           \* history: the counter value each console_seq += 1 read, in order

bufVars == <<console_buffer, console_seq, console_lock, submitted, appended, numbers>>
dockerVars == <<pc_d, client, pending, line_d, tmp_d, delivered, stream, emitted>>
fileVars == <<pc_f, last_pos, pos_f, line_f, tmp_f, tailed>>
diskVars == <<file_exists, file_content, writes>>
reqVars == <<pc_r, since, before_seq, buf, seq, resp>>
scrVars == <<fifo, stdin, cmd_s, sent, attempts, sends>>
cliVars == <<cursor, received>>
modVars == <<pc_m, tmod_raw, entries, file_data_start, deps, info>>
vars == <<bufVars, dockerVars, fileVars, diskVars, reqVars, faults, notified,
          tmod_file, modVars, scrVars, cliVars>>

NoResp == [kind |-> "none"]

\* The console after the application has started, and no call of
\* parse_tmod_dependencies under way.
InitConsole ==
    /\ console_buffer = <<>>
    /\ console_seq = 0
    /\ console_lock = "free"
    /\ submitted = EmptyBag
    /\ appended = <<>>
    /\ numbers = <<>>
    /\ pc_d = "connect"
    /\ client = "None"
    /\ pending = <<>>
    /\ line_d = <<>>
    /\ tmp_d = 0
    /\ delivered = 0
    /\ stream = <<>>
    /\ emitted = <<>>
    /\ pc_f = "check"
    /\ last_pos = 0
    /\ pos_f = 0
    /\ line_f = <<>>
    /\ tmp_f = 0
    /\ tailed = <<>>
    /\ file_exists = FALSE
    /\ file_content = <<>>
    /\ writes = 0
    /\ pc_r = "idle"
    /\ since = 0
    /\ before_seq = 0
    /\ buf = <<>>
    /\ seq = 0
    /\ resp = NoResp
    /\ faults = 0
    /\ notified = [docker |-> <<>>, file |-> <<>>]
    /\ pc_m = "idle"
    /\ tmod_raw = <<>>
    /\ entries = <<>>
    /\ file_data_start = 0
    /\ deps = <<>>
    /\ info = <<>>
    /\ fifo = "missing"
    /\ stdin = <<>>
    /\ cmd_s = <<>>
    /\ sent = "none"
    /\ attempts = 0
    /\ sends = 0
    /\ cursor = 0
    /\ received = <<>>

Init ==
    /\ InitConsole
    /\ tmod_file = <<>>

\* --------------------------------------------- console_buffer, console_lock

\* A plain list in place of the deque: nothing is ever discarded.
list_append(d, x) == Append(d, x)

\* A deque that discards the entry at the right end when at capacity.
deque_append_drop_newest(d, x) ==
    IF Len(d) >= MAX_CONSOLE_LINES THEN SubSeq(d, 1, Len(d) - 1) \o <<x>>
    ELSE Append(d, x)

\* deque(maxlen=MAX_CONSOLE_LINES).append(x): at capacity the entry at the
\* left end is discarded.
deque_append(d, x) ==
    IF Len(d) >= MAX_CONSOLE_LINES THEN Tail(d) \o <<x>> ELSE Append(d, x)

\* Entering the block without waiting for the lock.
AcquireNoWait(t) ==
    console_lock' = t

\* with console_lock: entering blocks until the lock is free.
Acquire(t) ==
    /\ console_lock = "free"
    /\ console_lock' = t

\* with console_lock: leaving the block.
Release(t) ==
    console_lock' = "free"

\* A collaborator may raise while the run's error budget lasts.
MayRaise == faults < MaxFaults

\* What the Docker SDK, the stream and discord_notify raise.
Errors == {"DockerException", "NotFound", "ConnectionError", "AttributeError"}

\* A handler that matches the Docker SDK's errors only.
CaughtDockerOnly(exc) == exc \in {"DockerException", "NotFound"}

\* except Exception as exc (line 85 of console.py): every error of Errors is
\* an Exception.
Caught(exc) == exc \in Errors

\* Where _docker_run goes when exc is raised inside its try block: into the
\* handler, or out of the thread's function when the handler does not match.
DockerRaise(exc) == IF Caught(exc) THEN "except" ELSE "dead"

\* ------------------------------------------------------- Docker-log poller

LF == <<"\n">>
CR == <<"\r">>

\* The text after the first \r instead of the last one.
DockerLineFirstCR(raw_line) ==
    Strip(IF Contains(raw_line, CR) THEN SplitFirst(raw_line, CR)[2] ELSE raw_line)

\* Lines 73-75 of console.py: the text after the last \r, stripped.
DockerLine(raw_line) ==
    Strip(IF Contains(raw_line, CR) THEN RSplitLast(raw_line, CR) ELSE raw_line)

\* client = None; client = docker.from_env()
DockerConnect ==
    /\ pc_d = "connect"
    /\ \/ /\ client' = "open"
          /\ pc_d' = "get"
          /\ UNCHANGED faults
       \/ /\ MayRaise
          /\ faults' = faults + 1
          /\ client' = "None"
          /\ \E exc \in Errors : pc_d' = DockerRaise(exc)
    /\ stream' = <<>>
    /\ emitted' = <<>>
    /\ UNCHANGED <<tmod_file, modVars, scrVars, cliVars, notified, bufVars, pending, line_d, tmp_d, delivered, fileVars, diskVars, reqVars>>

\* container = client.containers.get(...); pending = ''; container.logs(...)
DockerGetContainer ==
    /\ pc_d = "get"
    /\ \/ /\ pending' = <<>>
          /\ pc_d' = "iter"
          /\ UNCHANGED faults
       \/ /\ MayRaise
          /\ faults' = faults + 1
          /\ \E exc \in Errors : pc_d' = DockerRaise(exc)
          /\ UNCHANGED pending
    /\ UNCHANGED <<tmod_file, modVars, scrVars, cliVars, notified, bufVars, client, line_d, tmp_d, delivered, stream, emitted,
                   fileVars, diskVars, reqVars>>

\* The chunk's text put in the place of pending instead of added to it.
DockerChunkAlone(chunks, most) ==
    /\ pc_d = "iter"
    /\ delivered < most
    /\ \E chunk \in chunks :
          /\ pending' = ANSI_ESCAPE_sub(Decode(chunk))
          /\ stream' = stream \o chunk
    /\ delivered' = delivered + 1
    /\ pc_d' = "flush"
    /\ UNCHANGED <<tmod_file, modVars, scrVars, cliVars, notified, bufVars, client, line_d, tmp_d, emitted, fileVars, diskVars,
                   reqVars, faults>>

\* for chunk in container.logs(...): the stream yields a chunk, which is
\* decoded, stripped of ANSI codes and added to pending. The stream yields at
\* most "most" chunks over the run.
DockerChunkOf(chunks, most) ==
    /\ pc_d = "iter"
    /\ delivered < most
    /\ \E chunk \in chunks :
          /\ pending' = pending \o ANSI_ESCAPE_sub(Decode(chunk))
          /\ stream' = stream \o chunk
    /\ delivered' = delivered + 1
    /\ pc_d' = "flush"
    /\ UNCHANGED <<tmod_file, modVars, scrVars, cliVars, notified, bufVars, client, line_d, tmp_d, emitted, fileVars, diskVars,
                   reqVars, faults>>

\* The stream raises (connection lost).
DockerStreamError ==
    /\ pc_d = "iter"
    /\ MayRaise
    /\ faults' = faults + 1
    /\ \E exc \in Errors : pc_d' = DockerRaise(exc)
    /\ UNCHANGED <<tmod_file, modVars, scrVars, cliVars, notified, bufVars, client, pending, line_d, tmp_d, delivered, stream,
                   emitted, fileVars, diskVars, reqVars>>

\* The stream ends (the container stopped): the for loop is left normally,
\* then finally: if client: client.close()
DockerStreamEnd ==
    /\ pc_d = "iter"
    /\ client' = "None"
    /\ pending' = <<>>
    /\ pc_d' = "sleep"
    /\ UNCHANGED <<tmod_file, modVars, scrVars, cliVars, notified, bufVars, line_d, tmp_d, delivered, stream, emitted, fileVars,
                   diskVars, reqVars, faults>>

\* The chunk's text taken as one line, its newlines kept, instead of split.
DockerFlushWholeChunk ==
    /\ pc_d = "flush"
    /\ IF Contains(pending, LF)
       THEN LET line == DockerLine(pending)
            IN  /\ pending' = <<>>
                /\ IF line = <<>>
                   THEN UNCHANGED <<pc_d, line_d, submitted>>
                   ELSE /\ line_d' = line
                        /\ submitted' = submitted (+) SetToBag({line})
                        /\ pc_d' = "acquire"
       ELSE /\ pending' = (IF Contains(pending, CR) THEN RSplitLast(pending, CR)
                           ELSE pending)
            /\ pc_d' = "iter"
            /\ UNCHANGED <<line_d, submitted>>
    /\ UNCHANGED <<tmod_file, modVars, scrVars, cliVars, notified, console_buffer, console_seq, console_lock, appended, numbers, client, tmp_d, delivered, stream, emitted, fileVars,
                   diskVars, reqVars, faults>>

\* The while loop taking the newest complete line of pending first.
DockerFlushNewestFirst ==
    /\ pc_d = "flush"
    /\ IF Contains(pending, LF)
       THEN LET head == SubSeq(pending, 1, RFind(pending, LF) - 1)
                rest == From(pending, RFind(pending, LF))
                kept == IF Contains(head, LF)
                        THEN SubSeq(head, 1, RFind(head, LF)) ELSE <<>>
                line == DockerLine(RSplitLast(head, LF))
            IN  /\ pending' = kept \o rest
                /\ IF line = <<>>
                   THEN UNCHANGED <<pc_d, line_d, submitted>>
                   ELSE /\ line_d' = line
                        /\ submitted' = submitted (+) SetToBag({line})
                        /\ pc_d' = "acquire"
       ELSE /\ pending' = (IF Contains(pending, CR) THEN RSplitLast(pending, CR)
                           ELSE pending)
            /\ pc_d' = "iter"
            /\ UNCHANGED <<line_d, submitted>>
    /\ UNCHANGED <<tmod_file, modVars, scrVars, cliVars, notified, console_buffer, console_seq, console_lock, appended, numbers, client, tmp_d, delivered, stream, emitted, fileVars,
                   diskVars, reqVars, faults>>

\* One turn of "while '\n' in pending", up to the with block; when no \n is
\* left, the overwritten partial-line data is discarded and the next chunk is
\* awaited.
DockerFlush ==
    /\ pc_d = "flush"
    /\ IF Contains(pending, LF)
       THEN LET parts == SplitFirst(pending, LF)
                line == DockerLine(parts[1])
            IN  /\ pending' = parts[2]
                /\ IF line = <<>>
                   THEN UNCHANGED <<pc_d, line_d, submitted>>
                   ELSE /\ line_d' = line
                        /\ submitted' = submitted (+) SetToBag({line})
                        /\ pc_d' = "acquire"
       ELSE /\ pending' = (IF Contains(pending, CR) THEN RSplitLast(pending, CR)
                           ELSE pending)
            /\ pc_d' = "iter"
            /\ UNCHANGED <<line_d, submitted>>
    /\ UNCHANGED <<tmod_file, modVars, scrVars, cliVars, notified, console_buffer, console_seq, console_lock, appended, numbers, client, tmp_d, delivered, stream, emitted, fileVars,
                   diskVars, reqVars, faults>>

\* with console_lock:
DockerAcquire ==
    /\ pc_d = "acquire"
    /\ Acquire("docker")
    /\ pc_d' = "append"
    /\ UNCHANGED <<tmod_file, modVars, scrVars, cliVars, notified, console_buffer, console_seq, submitted, appended, numbers, client, pending, line_d,
                   tmp_d, delivered, stream, emitted, fileVars, diskVars, reqVars,
                   faults>>

\* console_buffer.append(line)
DockerAppend ==
    /\ pc_d = "append"
    /\ console_buffer' = deque_append(console_buffer, line_d)
    /\ appended' = Append(appended, [src |-> "docker", line |-> line_d])
    /\ emitted' = Append(emitted, line_d)
    /\ pc_d' = "load"
    /\ UNCHANGED <<tmod_file, modVars, scrVars, cliVars, notified, console_seq, console_lock, submitted, numbers, client, pending, line_d,
                   tmp_d, delivered, stream, fileVars, diskVars, reqVars, faults>>

\* extensions.console_seq += 1: the read
DockerLoad ==
    /\ pc_d = "load"
    /\ tmp_d' = console_seq
    /\ pc_d' = "store"
    /\ UNCHANGED <<tmod_file, modVars, scrVars, cliVars, notified, bufVars, client, pending, line_d, delivered, stream, emitted,
                   fileVars, diskVars, reqVars, faults>>

\* The counter taken from the length of the buffer instead of incremented.
DockerStoreLen ==
    /\ pc_d = "store"
    /\ console_seq' = Len(console_buffer)
    /\ numbers' = Append(numbers, tmp_d)
    /\ tmp_d' = 0
    /\ pc_d' = "release"
    /\ UNCHANGED <<tmod_file, modVars, scrVars, cliVars, notified, console_buffer, console_lock, submitted, appended, client, pending, line_d,
                   delivered, stream, emitted, fileVars, diskVars, reqVars, faults>>

\* extensions.console_seq += 1: the write
DockerStore ==
    /\ pc_d = "store"
    /\ console_seq' = tmp_d + 1
    /\ numbers' = Append(numbers, tmp_d)
    /\ tmp_d' = 0
    /\ pc_d' = "release"
    /\ UNCHANGED <<tmod_file, modVars, scrVars, cliVars, notified, console_buffer, console_lock, submitted, appended, client, pending, line_d,
                   delivered, stream, emitted, fileVars, diskVars, reqVars, faults>>

\* leaving the with block
DockerRelease ==
    /\ pc_d = "release"
    /\ Release("docker")
    /\ pc_d' = "notify"
    /\ UNCHANGED <<tmod_file, modVars, scrVars, cliVars, notified, console_buffer, console_seq, submitted, appended, numbers, client, pending, line_d,
                   tmp_d, delivered, stream, emitted, fileVars, diskVars, reqVars,
                   faults>>

\* check_player_event(line, cfg, discord_notify): for a join or leave line
\* discord_notify is called with the event and the player's name, and returns
\* or raises. line is not read again
\* before the next line is bound to it.
DockerNotify ==
    /\ pc_d = "notify"
    /\ \/ /\ pc_d' = "flush"
          /\ UNCHANGED faults
       \/ /\ check_player_event(line_d) # "none"
          /\ MayRaise
          /\ faults' = faults + 1
          /\ \E exc \in Errors : pc_d' = DockerRaise(exc)
    /\ notified' = [notified EXCEPT !.docker = @ \o notifications(line_d)]
    /\ line_d' = <<>>
    /\ UNCHANGED <<tmod_file, modVars, scrVars, cliVars, bufVars, client, pending, tmp_d, delivered, stream,
                   emitted, fileVars, diskVars, reqVars>>

\* except Exception as exc: log.warning(...), then
\* finally: if client: client.close()
DockerExcept ==
    /\ pc_d = "except"
    /\ client' = "None"
    /\ pending' = <<>>
    /\ pc_d' = "sleep"
    /\ UNCHANGED <<tmod_file, modVars, scrVars, cliVars, notified, bufVars, line_d, tmp_d, delivered, stream, emitted, fileVars,
                   diskVars, reqVars, faults>>

\* time.sleep(5), then the next turn of while True
DockerSleep ==
    /\ pc_d = "sleep"
    /\ pc_d' = "connect"
    /\ UNCHANGED <<tmod_file, modVars, scrVars, cliVars, notified, bufVars, client, pending, line_d, tmp_d, delivered, stream,
                   emitted, fileVars, diskVars, reqVars, faults>>

\* -------------------------------------------------------------- file poller

\* f.readline() at position pos: the text up to and including the next \n, or
\* up to the end of the file; empty at or beyond the end.
readline(content, pos) ==
    IF pos >= Len(content) THEN <<>>
    ELSE LET rest == From(content, pos)
             n == Find(rest, LF)
         IN  IF n = 0 THEN rest ELSE SubSeq(rest, 1, n)

\* if not os.path.exists(log_file): time.sleep(2); continue
FileCheck ==
    /\ pc_f = "check"
    /\ pc_f' = (IF file_exists THEN "open" ELSE "wait")
    /\ UNCHANGED <<tmod_file, modVars, scrVars, cliVars, notified, tailed, bufVars, dockerVars, last_pos, pos_f, line_f, tmp_f, diskVars,
                   reqVars, faults>>

\* time.sleep(2) while the file does not exist
FileWait ==
    /\ pc_f = "wait"
    /\ pc_f' = "check"
    /\ UNCHANGED <<tmod_file, modVars, scrVars, cliVars, notified, tailed, bufVars, dockerVars, last_pos, pos_f, line_f, tmp_f, diskVars,
                   reqVars, faults>>

\* The file read from its start in every cycle.
FileOpenAtStart ==
    /\ pc_f = "open"
    /\ \/ /\ pos_f' = 0
          /\ pc_f' = "readline"
          /\ UNCHANGED faults
       \/ /\ MayRaise
          /\ faults' = faults + 1
          /\ pc_f' = "except"
          /\ UNCHANGED pos_f
    /\ UNCHANGED <<tmod_file, modVars, scrVars, cliVars, notified, tailed, bufVars, dockerVars, last_pos, line_f, tmp_f, diskVars, reqVars>>

\* with open(log_file, 'r', errors='replace') as f: f.seek(last_pos)
FileOpen ==
    /\ pc_f = "open"
    /\ \/ /\ pos_f' = last_pos
          /\ pc_f' = "readline"
          /\ UNCHANGED faults
       \/ /\ MayRaise
          /\ faults' = faults + 1
          /\ pc_f' = "except"
          /\ UNCHANGED pos_f
    /\ UNCHANGED <<tmod_file, modVars, scrVars, cliVars, notified, tailed, bufVars, dockerVars, last_pos, line_f, tmp_f, diskVars, reqVars>>

\* One turn of the inner while True, up to the with console_lock block; at the
\* end of the file: break, last_pos = f.tell().
FileReadline ==
    /\ pc_f = "readline"
    /\ LET raw == readline(file_content, pos_f)
           line == Strip(ANSI_ESCAPE_sub(raw))
       IN  IF raw = <<>>
           THEN /\ last_pos' = pos_f
                /\ pos_f' = 0
                /\ pc_f' = "sleep"
                /\ UNCHANGED <<line_f, submitted>>
           ELSE /\ pos_f' = pos_f + Len(raw)
                /\ IF line = <<>>
                   THEN UNCHANGED <<pc_f, line_f, submitted>>
                   ELSE /\ line_f' = line
                        /\ submitted' = submitted (+) SetToBag({line})
                        /\ pc_f' = "acquire"
                /\ UNCHANGED last_pos
    /\ UNCHANGED <<tmod_file, modVars, scrVars, cliVars, notified, tailed, console_buffer, console_seq, console_lock, appended, numbers,
                   dockerVars, tmp_f, diskVars, reqVars, faults>>

\* with console_lock:
FileAcquire ==
    /\ pc_f = "acquire"
    /\ Acquire("file")
    /\ pc_f' = "append"
    /\ UNCHANGED <<tmod_file, modVars, scrVars, cliVars, notified, tailed, console_buffer, console_seq, submitted, appended, numbers, dockerVars, last_pos, pos_f,
                   line_f, tmp_f, diskVars, reqVars, faults>>

\* console_buffer.append(line)
FileAppend ==
    /\ pc_f = "append"
    /\ console_buffer' = deque_append(console_buffer, line_f)
    /\ appended' = Append(appended, [src |-> "file", line |-> line_f])
    /\ tailed' = Append(tailed, line_f)
    /\ pc_f' = "load"
    /\ UNCHANGED <<tmod_file, modVars, scrVars, cliVars, notified, console_seq, console_lock, submitted, numbers, dockerVars, last_pos, pos_f,
                   line_f, tmp_f, diskVars, reqVars, faults>>

\* extensions.console_seq += 1: the read
FileLoad ==
    /\ pc_f = "load"
    /\ tmp_f' = console_seq
    /\ pc_f' = "store"
    /\ UNCHANGED <<tmod_file, modVars, scrVars, cliVars, notified, tailed, bufVars, dockerVars, last_pos, pos_f, line_f, diskVars, reqVars,
                   faults>>

\* extensions.console_seq += 1: the write
FileStore ==
    /\ pc_f = "store"
    /\ console_seq' = tmp_f + 1
    /\ numbers' = Append(numbers, tmp_f)
    /\ tmp_f' = 0
    /\ pc_f' = "release"
    /\ UNCHANGED <<tmod_file, modVars, scrVars, cliVars, notified, tailed, console_buffer, console_lock, submitted, appended, dockerVars, last_pos, pos_f, line_f,
                   diskVars, reqVars, faults>>

\* leaving the with block
FileRelease ==
    /\ pc_f = "release"
    /\ Release("file")
    /\ pc_f' = "notify"
    /\ UNCHANGED <<tmod_file, modVars, scrVars, cliVars, notified, tailed, console_buffer, console_seq, submitted, appended, numbers, dockerVars, last_pos, pos_f,
                   line_f, tmp_f, diskVars, reqVars, faults>>

\* check_player_event(line, cfg, discord_notify)
FileNotify ==
    /\ pc_f = "notify"
    /\ \/ /\ pc_f' = "readline"
          /\ UNCHANGED faults
       \/ /\ check_player_event(line_f) # "none"
          /\ MayRaise
          /\ faults' = faults + 1
          /\ pc_f' = "except"
    /\ notified' = [notified EXCEPT !.file = @ \o notifications(line_f)]
    /\ line_f' = <<>>
    /\ UNCHANGED <<tmod_file, modVars, scrVars, cliVars, tailed, bufVars, dockerVars, last_pos, pos_f, tmp_f, diskVars, reqVars>>

\* except Exception as exc: log.warning(...); last_pos = 0
FileExcept ==
    /\ pc_f = "except"
    /\ last_pos' = 0
    /\ pos_f' = 0
    /\ tailed' = <<>>
    /\ pc_f' = "sleep"
    /\ UNCHANGED <<tmod_file, modVars, scrVars, cliVars, notified, bufVars, dockerVars, line_f, tmp_f, diskVars, reqVars, faults>>

\* time.sleep(0.5), then the next turn of while True
FileSleep ==
    /\ pc_f = "sleep"
    /\ pc_f' = "check"
    /\ UNCHANGED <<tmod_file, modVars, scrVars, cliVars, notified, tailed, bufVars, dockerVars, last_pos, pos_f, line_f, tmp_f, diskVars,
                   reqVars, faults>>

\* The game server creates LOG_FILE or appends text to it, at most "most"
\* times over the run.
ServerWriteOf(texts, most) ==
    /\ writes < most
    /\ \E text \in texts : file_content' = file_content \o text
    /\ file_exists' = TRUE
    /\ writes' = writes + 1
    /\ UNCHANGED <<tmod_file, modVars, scrVars, cliVars, notified, bufVars, dockerVars, fileVars, reqVars, faults>>

ServerWrite(texts) == ServerWriteOf(texts, MaxWrites)

\* The game server starts a new log: LOG_FILE is truncated in place, or
\* deleted and recreated, and then holds a shorter text than before.
ServerRotate(texts) ==
    /\ file_exists
    /\ \E text \in texts :
          /\ Len(text) < Len(file_content)
          /\ file_content' = text
    /\ UNCHANGED <<tmod_file, modVars, scrVars, cliVars, notified, bufVars, dockerVars, fileVars, reqVars, faults,
                   file_exists, writes>>

\* ----------------------------------------------------------- request thread

\* list[offset:] as Python evaluates it: a negative offset counts from the
\* right end, an offset beyond either end is clipped.
slice_from(l, offset) ==
    IF offset < 0 THEN From(l, Max(Len(l) + offset, 0))
    ELSE From(l, Min(offset, Len(l)))

\* '\n'.join(lines)
RECURSIVE join(_)
join(lines) ==
    IF lines = <<>> THEN <<>>
    ELSE IF Len(lines) = 1 THEN lines[1]
    ELSE lines[1] \o LF \o join(Tail(lines))

\* The response without the lower clamp of since.
lines_response_no_floor(b, s, asked) ==
    LET buf_start == s - Len(b)
        clamped == Min(asked, s)
        offset == clamped - buf_start
    IN  [kind |-> "lines", asked |-> asked, since |-> clamped, offset |-> offset,
         lines |-> slice_from(b, offset), total |-> s]

\* The response that indexes the copy by the cursor itself.
lines_response_by_cursor(b, s, asked) ==
    LET buf_start == s - Len(b)
        clamped == Max(buf_start, Min(asked, s))
        offset == clamped
    IN  [kind |-> "lines", asked |-> asked, since |-> clamped, offset |-> offset,
         lines |-> slice_from(b, offset), total |-> s]

\* Lines 26-32 of blueprints/console.py: the response computed from the
\* snapshot (b, s) for the requested cursor.
lines_response(b, s, asked) ==
    LET buf_start == s - Len(b)
        clamped == Max(buf_start, Min(asked, s))
        offset == clamped - buf_start
    IN  [kind |-> "lines", asked |-> asked, since |-> clamped, offset |-> offset,
         lines |-> slice_from(b, offset), total |-> s]

\* The counter recorded before the send used as an index into the copy, as
\* len(buffer) would be.
output_response_by_len(b, s, before) ==
    [kind |-> "output", sent |-> TRUE, before |-> before,
     lines |-> slice_from(b, Min(before, Len(b))),
     text |-> join(slice_from(b, Min(before, Len(b))))]

\* Lines 61-63 of services/screen.py: the output computed from the snapshot
\* (b, s) and the counter recorded before the send.
output_response(b, s, before) ==
    LET buf_start == s - Len(b)
        offset == Max(0, before - buf_start)
    IN  [kind |-> "output", sent |-> TRUE, before |-> before,
         lines |-> slice_from(b, offset), text |-> join(slice_from(b, offset))]

\* The handler reading the buffer without taking the lock.
AclAcquireUnlocked(sinces) ==
    /\ pc_r = "idle"
    /\ \E n \in sinces : since' = n
    /\ pc_r' = "acl_copy"
    /\ UNCHANGED <<tmod_file, modVars, scrVars, cliVars, notified, bufVars, dockerVars, fileVars, diskVars, before_seq, buf, seq,
                   resp, faults>>

\* GET /api/console/lines?since=N: since = int(request.args.get('since', 0)),
\* then with console_lock:
AclAcquire(sinces) ==
    /\ pc_r = "idle"
    /\ \E n \in sinces : since' = n
    /\ Acquire("req")
    /\ pc_r' = "acl_copy"
    /\ UNCHANGED <<tmod_file, modVars, scrVars, cliVars, notified, console_buffer, console_seq, submitted, appended, numbers, dockerVars, fileVars,
                   diskVars, before_seq, buf, seq, resp, faults>>

\* buf = list(console_buffer)
AclCopy ==
    /\ pc_r = "acl_copy"
    /\ buf' = console_buffer
    /\ pc_r' = "acl_read"
    /\ UNCHANGED <<tmod_file, modVars, scrVars, cliVars, notified, bufVars, dockerVars, fileVars, diskVars, since, before_seq, seq,
                   resp, faults>>

\* The total of the counter read as the length of the buffer.
AclReadLen ==
    /\ pc_r = "acl_read"
    /\ seq' = Len(console_buffer)
    /\ pc_r' = "acl_release"
    /\ UNCHANGED <<tmod_file, modVars, scrVars, cliVars, notified, bufVars, dockerVars, fileVars, diskVars, since, before_seq, buf,
                   resp, faults>>

\* seq = extensions.console_seq
AclRead ==
    /\ pc_r = "acl_read"
    /\ seq' = console_seq
    /\ pc_r' = "acl_release"
    /\ UNCHANGED <<tmod_file, modVars, scrVars, cliVars, notified, bufVars, dockerVars, fileVars, diskVars, since, before_seq, buf,
                   resp, faults>>

\* Leaving the with block, then buf_start, since, offset and
\* return jsonify({'lines': buf[offset:], 'total': seq})
AclReturn ==
    /\ pc_r = "acl_release"
    /\ Release("req")
    /\ resp' = lines_response(buf, seq, since)
    /\ since' = resp'.since
    /\ pc_r' = "done"
    /\ UNCHANGED <<tmod_file, modVars, scrVars, cliVars, notified, console_buffer, console_seq, submitted, appended, numbers, dockerVars, fileVars,
                   diskVars, before_seq, buf, seq, faults>>

\* screen_cmd_output(cmd, cfg) is called: with console_lock: (the first block)
ScoAcquire1 ==
    /\ pc_r = "idle"
    /\ Acquire("req")
    /\ pc_r' = "sco_before"
    /\ UNCHANGED <<tmod_file, modVars, scrVars, cliVars, notified, console_buffer, console_seq, submitted, appended, numbers, dockerVars, fileVars,
                   diskVars, since, before_seq, buf, seq, resp, faults>>

\* before_seq = extensions.console_seq
ScoBefore ==
    /\ pc_r = "sco_before"
    /\ before_seq' = console_seq
    /\ pc_r' = "sco_release1"
    /\ UNCHANGED <<tmod_file, modVars, scrVars, cliVars, notified, bufVars, dockerVars, fileVars, diskVars, since, buf, seq, resp,
                   faults>>

\* Leaving the first with block, then if not screen_send(cmd, cfg): return ''
\* (screen_send returns True after the write, False when opening or writing
\* the FIFO raised), then time.sleep(wait).
ScoSend ==
    /\ pc_r = "sco_release1"
    /\ Release("req")
    /\ \/ /\ pc_r' = "sco_acquire2"
          /\ UNCHANGED resp
       \/ /\ resp' = [kind |-> "output", sent |-> FALSE, before |-> before_seq,
                      lines |-> <<>>, text |-> <<>>]
          /\ pc_r' = "done"
    /\ UNCHANGED <<tmod_file, modVars, scrVars, cliVars, notified, console_buffer, console_seq, submitted, appended, numbers, dockerVars, fileVars,
                   diskVars, since, before_seq, buf, seq, faults>>

\* with console_lock: (the second block)
ScoAcquire2 ==
    /\ pc_r = "sco_acquire2"
    /\ Acquire("req")
    /\ pc_r' = "sco_copy"
    /\ UNCHANGED <<tmod_file, modVars, scrVars, cliVars, notified, console_buffer, console_seq, submitted, appended, numbers, dockerVars, fileVars,
                   diskVars, since, before_seq, buf, seq, resp, faults>>

\* buf = list(console_buffer)
ScoCopy ==
    /\ pc_r = "sco_copy"
    /\ buf' = console_buffer
    /\ pc_r' = "sco_read"
    /\ UNCHANGED <<tmod_file, modVars, scrVars, cliVars, notified, bufVars, dockerVars, fileVars, diskVars, since, before_seq, seq,
                   resp, faults>>

\* seq = extensions.console_seq
ScoRead ==
    /\ pc_r = "sco_read"
    /\ seq' = console_seq
    /\ pc_r' = "sco_release2"
    /\ UNCHANGED <<tmod_file, modVars, scrVars, cliVars, notified, bufVars, dockerVars, fileVars, diskVars, since, before_seq, buf,
                   resp, faults>>

\* Leaving the second with block, then buf_start, offset and
\* return '\n'.join(buf[offset:])
ScoReturn ==
    /\ pc_r = "sco_release2"
    /\ Release("req")
    /\ resp' = output_response(buf, seq, before_seq)
    /\ pc_r' = "done"
    /\ UNCHANGED <<tmod_file, modVars, scrVars, cliVars, notified, console_buffer, console_seq, submitted, appended, numbers, dockerVars, fileVars,
                   diskVars, since, before_seq, buf, seq, faults>>

\* The handler has returned; the thread serves the next request with fresh
\* locals.
ReqDone ==
    /\ pc_r = "done"
    /\ pc_r' = "idle"
    /\ since' = 0
    /\ before_seq' = 0
    /\ buf' = <<>>
    /\ seq' = 0
    /\ resp' = NoResp
    /\ UNCHANGED <<tmod_file, modVars, scrVars, cliVars, notified, bufVars, dockerVars, fileVars, diskVars, faults>>

\* screen_capture(cfg, wait): time.sleep(wait), then
\* return '\n'.join(list(console_buffer)[-80:]); console_lock is not taken.
ScreenCapture ==
    /\ pc_r = "idle"
    /\ resp' = [kind |-> "capture",
                lines |-> slice_from(console_buffer, 0 - 80),
                text |-> join(slice_from(console_buffer, 0 - 80))]
    /\ pc_r' = "done"
    /\ UNCHANGED <<tmod_file, modVars, scrVars, cliVars, notified, bufVars, dockerVars, fileVars, diskVars, since, before_seq,
                   buf, seq, faults>>

\* _read_logs(cfg, lines) when the log file cannot be read and journalctl
\* fails: return list(console_buffer)[-lines:]; console_lock is not taken.
ReadLogs(counts) ==
    /\ pc_r = "idle"
    /\ \E lines \in counts :
          resp' = [kind |-> "logs", lines |-> slice_from(console_buffer, 0 - lines)]
    /\ pc_r' = "done"
    /\ UNCHANGED <<tmod_file, modVars, scrVars, cliVars, notified, bufVars, dockerVars, fileVars, diskVars, since, before_seq,
                   buf, seq, faults>>

\* The client of /api/console/lines gets {'lines', 'total'}: it keeps the
\* lines (the last of them has the number total - 1) and passes total as
\* since with its next request; the handler has returned.
ClientReceive ==
    /\ pc_r = "done"
    /\ resp.kind = "lines"
    /\ received' = received \o
                    [i \in 1..Len(resp.lines) |->
                        [n |-> resp.total - Len(resp.lines) + (i - 1),
                         line |-> resp.lines[i]]]
    /\ cursor' = resp.total
    /\ pc_r' = "idle"
    /\ since' = 0
    /\ before_seq' = 0
    /\ buf' = <<>>
    /\ seq' = 0
    /\ resp' = NoResp
    /\ UNCHANGED <<tmod_file, modVars, scrVars, notified, bufVars, dockerVars, fileVars, diskVars, faults>>

\* ------------------------------------------------------------- screen_send

\* A second os.open after the first one has failed.
ScreenSendRetry(cmds) ==
    /\ sends < MaxSends
    /\ \E cmd \in cmds :
          /\ cmd_s' = cmd
          /\ \/ /\ fifo = "reader"
                /\ stdin' = stdin \o cmd \o LF
                /\ sent' = TRUE
                /\ attempts' = 1
                /\ UNCHANGED faults
             \/ /\ fifo = "reader"
                /\ MayRaise
                /\ faults' = faults + 1
                /\ sent' = FALSE
                /\ attempts' = 1
                /\ UNCHANGED stdin
             \/ /\ fifo # "reader"
                /\ sent' = FALSE
                /\ attempts' = 2
                /\ UNCHANGED <<stdin, faults>>
    /\ sends' = sends + 1
    /\ UNCHANGED <<bufVars, dockerVars, fileVars, diskVars, reqVars, notified,
                   tmod_file, modVars, cliVars, fifo>>

\* screen_send(cmd, cfg): os.open(fifo, O_WRONLY | O_NONBLOCK) returns a
\* descriptor when a reader has the FIFO open, and raises FileNotFoundError
\* when the FIFO is missing and OSError (ENXIO) when it has no reader; the
\* write of cmd + '\n' reaches the reader whole, or raises (the reader has
\* gone, the pipe is full) and nothing is written. except Exception: return
\* False.
ScreenSend(cmds) ==
    /\ sends < MaxSends
    /\ \E cmd \in cmds :
          /\ cmd_s' = cmd
          /\ \/ /\ fifo = "reader"
                /\ stdin' = stdin \o cmd \o LF
                /\ sent' = TRUE
                /\ UNCHANGED faults
             \/ /\ fifo = "reader"
                /\ MayRaise
                /\ faults' = faults + 1
                /\ sent' = FALSE
                /\ UNCHANGED stdin
             \/ /\ fifo # "reader"
                /\ sent' = FALSE
                /\ UNCHANGED <<stdin, faults>>
    /\ attempts' = 1
    /\ sends' = sends + 1
    /\ UNCHANGED <<bufVars, dockerVars, fileVars, diskVars, reqVars, notified,
                   tmod_file, modVars, cliVars, fifo>>

\* The game server starts (it creates the FIFO and opens it for reading) or
\* stops (the FIFO is left without a reader, or is removed).
ServerFifo ==
    /\ \E f \in {"missing", "no_reader", "reader"} \ {fifo} : fifo' = f
    /\ UNCHANGED <<bufVars, dockerVars, fileVars, diskVars, reqVars, notified,
                   tmod_file, modVars, cliVars, faults, stdin, cmd_s, sent, attempts, sends>>

\* ------------------------------------------------- the .tmod archive parser
\* terraria_admin/services/mods.py. A byte is a number in 0..255 and a text is
\* a sequence of code points; places count from 0 as in the code (the byte at
\* place pos is data[pos + 1]). A function that can raise returns a record
\* whose field ok tells whether it returned.

Raised == [ok |-> FALSE]

\* data[a:b] for a, b >= 0
Slice(data, a, b) == SubSeq(data, Min(a, Len(data)) + 1, Min(b, Len(data)))

\* bytes.decode('utf-8', errors='replace'): characters of one and two bytes;
\* every other byte of 128 and more is replaced by U+FFFD.
RECURSIVE decode_utf8(_)
decode_utf8(b) ==
    IF b = <<>> THEN <<>>
    ELSE IF b[1] < 128 THEN <<b[1]>> \o decode_utf8(From(b, 1))
    ELSE IF b[1] \in 194..223 /\ Len(b) > 1 /\ b[2] \in 128..191
         THEN <<(b[1] - 192) * 64 + (b[2] - 128)>> \o decode_utf8(From(b, 2))
    ELSE <<65533>> \o decode_utf8(From(b, 1))

\* The loop of _read_7bit_string: weight is 2 ** shift. data[pos] raises
\* IndexError at the end of data.
RECURSIVE read_7bit_length(_, _, _, _)
read_7bit_length(data, pos, length, weight) ==
    IF pos >= Len(data) THEN Raised
    ELSE LET b == data[pos + 1]
             longer == length + (b % 128) * weight
         IN  IF b < 128 THEN [ok |-> TRUE, length |-> longer, pos |-> pos + 1]
             ELSE read_7bit_length(data, pos + 1, longer, weight * 128)

\* _read_7bit_string(data, pos)
read_7bit_string(data, pos) ==
    LET r == read_7bit_length(data, pos, 0, 1)
    IN  IF ~r.ok THEN Raised
        ELSE [ok |-> TRUE,
              text |-> decode_utf8(Slice(data, r.pos, r.pos + r.length)),
              pos |-> r.pos + r.length]

\* _read_dotnet_string_list(data, pos), with the items read so far.
RECURSIVE read_dotnet_string_list(_, _, _)
read_dotnet_string_list(data, pos, items) ==
    LET r == read_7bit_string(data, pos)
    IN  IF ~r.ok THEN Raised
        ELSE IF r.text = <<>> THEN [ok |-> TRUE, items |-> items, pos |-> r.pos]
        ELSE read_dotnet_string_list(data, r.pos, Append(items, r.text))

\* A side tag taken as a flag without a value.
SidePayloadNone(pos) == pos

\* elif tag == 'side': pos += 1
SidePayload(pos) == pos + 1

modReferences == <<109, 111, 100, 82, 101, 102, 101, 114, 101, 110, 99, 101, 115>>

\* _parse_info_binary(data): the while loop from place pos on, with the
\* values of mod_refs and weak_refs.
RECURSIVE parse_info_binary(_, _, _, _)
parse_info_binary(data, pos, mod_refs, weak_refs) ==
    LET weakReferences == <<119, 101, 97, 107, 82, 101, 102, 101, 114, 101, 110, 99, 101, 115>>
        side == <<115, 105, 100, 101>>
        STRING_VALUE_TAGS ==
            {<<97, 117, 116, 104, 111, 114>>,
             <<118, 101, 114, 115, 105, 111, 110>>,
             <<100, 105, 115, 112, 108, 97, 121, 78, 97, 109, 101>>,
             <<104, 111, 109, 101, 112, 97, 103, 101>>,
             <<100, 101, 115, 99, 114, 105, 112, 116, 105, 111, 110>>,
             <<101, 97, 99, 80, 97, 116, 104>>,
             <<98, 117, 105, 108, 100, 86, 101, 114, 115, 105, 111, 110>>,
             <<109, 111, 100, 83, 111, 117, 114, 99, 101>>}
        LIST_VALUE_TAGS ==
            {<<109, 111, 100, 82, 101, 102, 101, 114, 101, 110, 99, 101, 115>>,
             <<119, 101, 97, 107, 82, 101, 102, 101, 114, 101, 110, 99, 101, 115>>,
             <<115, 111, 114, 116, 65, 102, 116, 101, 114>>,
             <<115, 111, 114, 116, 66, 101, 102, 111, 114, 101>>,
             <<100, 108, 108, 82, 101, 102, 101, 114, 101, 110, 99, 101, 115>>}
        \* r.split('@')[0]
        before_at(r) ==
            LET at == {i \in 1..Len(r) : r[i] = 64}
            IN  IF at = {} THEN r
                ELSE SubSeq(r, 1, (CHOOSE i \in at : \A j \in at : i <= j) - 1)
        bare_names(refs) == [i \in 1..Len(refs) |-> before_at(refs[i])]
        t == read_7bit_string(data, pos)
        l == read_dotnet_string_list(data, t.pos, <<>>)
        v == read_7bit_string(data, t.pos)
    IN  IF pos >= Len(data)
        THEN [ok |-> TRUE, mod_refs |-> mod_refs, weak_refs |-> weak_refs]
        ELSE IF ~t.ok THEN Raised
        ELSE IF t.text = <<>>
        THEN [ok |-> TRUE, mod_refs |-> mod_refs, weak_refs |-> weak_refs]
        ELSE IF t.text \in LIST_VALUE_TAGS
        THEN IF ~l.ok THEN Raised
             ELSE IF t.text = modReferences
             THEN parse_info_binary(data, l.pos, bare_names(l.items), weak_refs)
             ELSE IF t.text = weakReferences
             THEN parse_info_binary(data, l.pos, mod_refs, bare_names(l.items))
             ELSE parse_info_binary(data, l.pos, mod_refs, weak_refs)
        ELSE IF t.text \in STRING_VALUE_TAGS
        THEN IF ~v.ok THEN Raised
             ELSE parse_info_binary(data, v.pos, mod_refs, weak_refs)
        ELSE IF t.text = side
        THEN parse_info_binary(data, SidePayload(t.pos), mod_refs, weak_refs)
        ELSE parse_info_binary(data, t.pos, mod_refs, weak_refs)

\* int.from_bytes(b, 'little')
RECURSIVE int_from_bytes(_)
int_from_bytes(b) ==
    IF b = <<>> THEN 0 ELSE Head(b) + 256 * int_from_bytes(Tail(b))

\* The offset that counts the uncompressed lengths.
next_offset_by_u_len(running_offset, u_len, c_len) == running_offset + u_len

\* running_offset += c_len
next_offset(running_offset, u_len, c_len) == running_offset + c_len

\* _parse_tmod_file_table: the loop for _ in range(file_count), with count
\* turns left.
RECURSIVE read_entries(_, _, _, _, _)
read_entries(data, pos, count, running_offset, table) ==
    IF count = 0 THEN [ok |-> TRUE, entries |-> table, pos |-> pos]
    ELSE LET n == read_7bit_string(data, pos)
         IN  IF ~n.ok THEN Raised
             ELSE LET u_len == int_from_bytes(Slice(data, n.pos, n.pos + 4))
                      c_len == int_from_bytes(Slice(data, n.pos + 4, n.pos + 8))
                  IN  read_entries(data, n.pos + 8, count - 1,
                                   next_offset(running_offset, u_len, c_len),
                                   Append(table, [name |-> n.text,
                                                  offset |-> running_offset,
                                                  u_len |-> u_len,
                                                  c_len |-> c_len]))

\* _parse_tmod_file_table(raw, pos)
parse_tmod_file_table(data, pos) ==
    LET mod_name == read_7bit_string(data, pos)
    IN  IF ~mod_name.ok THEN Raised
        ELSE LET version == read_7bit_string(data, mod_name.pos)
             IN  IF ~version.ok THEN Raised
                 ELSE LET file_count == int_from_bytes(
                                  Slice(data, version.pos, version.pos + 4))
                          t == read_entries(data, version.pos + 4, file_count, 0, <<>>)
                      IN  IF ~t.ok THEN Raised
                          ELSE [ok |-> TRUE, mod_name |-> mod_name.text,
                                entries |-> t.entries, file_data_start |-> t.pos]

\* zlib.decompress(b, wbits=-15) from place pos on, for streams of stored
\* blocks (block type 0): a header byte, LEN and its complement NLEN in two
\* bytes each, LEN bytes of data; the stream ends with the block whose
\* header has bit 0 set, and what follows it is ignored. A block that is cut
\* short, lengths that do not match and block type 3 raise zlib.error.
\* Huffman-coded blocks (types 1 and 2) do not occur in the files modelled.
RECURSIVE inflate(_, _, _)
inflate(b, pos, out) ==
    IF pos + 5 > Len(b) THEN Raised
    ELSE LET header == b[pos + 1]
             len == b[pos + 2] + 256 * b[pos + 3]
             nlen == b[pos + 4] + 256 * b[pos + 5]
         IN  IF (header \div 2) % 4 # 0 \/ len + nlen # 65535
                \/ pos + 5 + len > Len(b)
             THEN Raised
             ELSE IF header % 2 = 1
             THEN [ok |-> TRUE, data |-> out \o Slice(b, pos + 5, pos + 5 + len)]
             ELSE inflate(b, pos + 5 + len, out \o Slice(b, pos + 5, pos + 5 + len))

\* str.strip() of a text of code points
strip(t) ==
    LET WhitespaceCodes ==
            (9..13) \cup (28..32) \cup (8192..8202)
            \cup {133, 160, 5760, 8232, 8233, 8239, 8287, 12288}
        keep == {i \in 1..Len(t) : t[i] \notin WhitespaceCodes}
    IN  IF keep = {} THEN <<>>
        ELSE SubSeq(t, CHOOSE i \in keep : \A j \in keep : i <= j,
                       CHOOSE i \in keep : \A j \in keep : i >= j)

\* str.splitlines(): \r\n is one line break, and no empty line follows the
\* last line break.
RECURSIVE splitlines(_)
splitlines(t) ==
    LET LineBreakCodes == (10..13) \cup (28..30) \cup {133, 8232, 8233}
        at == {i \in 1..Len(t) : t[i] \in LineBreakCodes}
    IN  IF t = <<>> THEN <<>>
        ELSE IF at = {} THEN <<t>>
        ELSE LET i == CHOOSE k \in at : \A j \in at : k <= j
                 n == IF t[i] = 13 /\ i < Len(t) /\ t[i + 1] = 10 THEN i + 1 ELSE i
             IN  <<SubSeq(t, 1, i - 1)>> \o splitlines(From(t, n))

\* str.split(sep) for a separator of one code point
RECURSIVE split_at(_, _)
split_at(t, sep) ==
    LET at == {i \in 1..Len(t) : t[i] = sep}
    IN  IF at = {} THEN <<t>>
        ELSE LET i == CHOOSE k \in at : \A j \in at : k <= j
             IN  <<SubSeq(t, 1, i - 1)>> \o split_at(From(t, i), sep)

\* Lines 126-130: the modReferences line of build.txt
build_txt_references(file_bytes) ==
    LET ls == splitlines(decode_utf8(file_bytes))
        lines == [i \in 1..Len(ls) |-> strip(ls[i])]
        startswith(line, prefix) ==
            Len(prefix) <= Len(line) /\ SubSeq(line, 1, Len(prefix)) = prefix
        hits == {i \in 1..Len(lines) :
                    /\ startswith(lines[i], modReferences)
                    /\ 61 \in Range(lines[i])}
        \* line.split('=', 1)[1]
        after_equals(line) ==
            LET at == {i \in 1..Len(line) : line[i] = 61}
            IN  From(line, CHOOSE k \in at : \A j \in at : k <= j)
        not_empty(t) == t # <<>>
    IN  IF hits = {} THEN <<>>
        ELSE LET line == lines[CHOOSE i \in hits : \A j \in hits : i <= j]
                 items == split_at(after_equals(line), 44)
             IN  SelectSeq([i \in 1..Len(items) |-> strip(items[i])], not_empty)

TMOD == <<84, 77, 79, 68>>
Info == <<73, 110, 102, 111>>
build_txt == <<98, 117, 105, 108, 100, 46, 116, 120, 116>>

\* The hash, the signature and the length of the signed data.
HeaderSkip == 20 + 256 + 4

\* Lines 111-134 of mods.py: what parse_tmod_dependencies returns once the
\* file table is parsed (deps), and what its call of _parse_info_binary
\* returned (info, empty when it was not called or raised); an exception
\* raised on the way makes the function return [].
dependencies(data, table, start) ==
    LET \* The first entry of the table that has the name, 0 if there is none.
        first_named(name) ==
            LET hits == {i \in 1..Len(table) : table[i].name = name}
            IN  IF hits = {} THEN 0 ELSE CHOOSE i \in hits : \A j \in hits : i <= j
        \* The bytes of an entry, inflated when its two lengths differ.
        entry_bytes(e) ==
            LET file_bytes ==
                    Slice(data, start + e.offset, start + e.offset + e.c_len)
            IN  IF e.u_len # e.c_len THEN inflate(file_bytes, 0, <<>>)
                ELSE [ok |-> TRUE, data |-> file_bytes]
        i == first_named(Info)
        b == first_named(build_txt)
        none == [deps |-> <<>>, info |-> <<>>]
    IN  IF i # 0
        THEN LET f == entry_bytes(table[i])
             IN  IF ~f.ok THEN none
                 ELSE LET r == parse_info_binary(f.data, 0, <<>>, <<>>)
                      IN  IF ~r.ok THEN none
                          ELSE [deps |-> r.mod_refs,
                                info |-> <<r.mod_refs, r.weak_refs>>]
        ELSE IF b # 0
        THEN LET f == entry_bytes(table[b])
             IN  IF ~f.ok THEN none
                 ELSE [deps |-> build_txt_references(f.data), info |-> <<>>]
        ELSE none

\* parse_tmod_dependencies(tmod_path): open and read the file, then test the
\* magic; open or read raising is caught and [] returned.
ModOpen ==
    /\ pc_m = "idle"
    /\ \/ /\ tmod_raw' = tmod_file
          /\ IF Slice(tmod_file, 0, 4) # TMOD
             THEN deps' = <<>> /\ pc_m' = "done"
             ELSE deps' = deps /\ pc_m' = "table"
          /\ UNCHANGED faults
       \/ /\ MayRaise
          /\ faults' = faults + 1
          /\ tmod_raw' = tmod_raw
          /\ deps' = <<>>
          /\ pc_m' = "done"
    /\ UNCHANGED <<bufVars, dockerVars, fileVars, diskVars, reqVars, notified, scrVars, cliVars,
                   tmod_file, entries, file_data_start, info>>

\* Lines 105-109: the header is skipped and the file table parsed.
ModTable ==
    /\ pc_m = "table"
    /\ LET version == read_7bit_string(tmod_raw, 4)
           t == parse_tmod_file_table(tmod_raw, version.pos + HeaderSkip)
       IN  IF version.ok /\ t.ok
           THEN /\ entries' = t.entries
                /\ file_data_start' = t.file_data_start
                /\ pc_m' = "entries"
                /\ UNCHANGED deps
           ELSE /\ deps' = <<>>
                /\ pc_m' = "done"
                /\ UNCHANGED <<entries, file_data_start>>
    /\ UNCHANGED <<bufVars, dockerVars, fileVars, diskVars, reqVars, notified, scrVars, cliVars,
                   faults, tmod_file, tmod_raw, info>>

\* Lines 111-134: the Info entry, or else build.txt, is read and the names
\* returned.
ModEntries ==
    /\ pc_m = "entries"
    /\ deps' = dependencies(tmod_raw, entries, file_data_start).deps
    /\ info' = dependencies(tmod_raw, entries, file_data_start).info
    /\ pc_m' = "done"
    /\ UNCHANGED <<bufVars, dockerVars, fileVars, diskVars, reqVars, notified, scrVars, cliVars,
                   faults, tmod_file, tmod_raw, entries, file_data_start>>

\* --------------------------------------------------------- .tmod files
\* The layout parse_tmod_dependencies reads: the magic, the tModLoader
\* version, hash, signature and data length, then the mod's name and version,
\* the number of files, one (name, length, compressed length) per file, and
\* the files' bytes one after the other. Every number in these files is
\* below 2^31.

\* A string of fewer than 128 bytes as _read_7bit_string reads it.
dotnet_string(b) == <<Len(b)>> \o b

\* A number below 65536 in four bytes, lowest first.
le32(n) == <<n % 256, n \div 256, 0, 0>>

RECURSIVE table_of(_)
table_of(files) ==
    IF files = <<>> THEN <<>>
    ELSE dotnet_string(Head(files).name) \o le32(Head(files).u_len)
         \o le32(Len(Head(files).data)) \o table_of(Tail(files))

RECURSIVE blob_of(_)
blob_of(files) ==
    IF files = <<>> THEN <<>> ELSE Head(files).data \o blob_of(Tail(files))

tmod_bytes(files) ==
    TMOD \o dotnet_string(<<48, 46, 49, 49>>) \o [i \in 1..HeaderSkip |-> 0]
    \o dotnet_string(<<109>>) \o dotnet_string(<<49, 46, 48>>)
    \o le32(Len(files)) \o table_of(files) \o blob_of(files)

\* Three files of compressed lengths 10, 20 and 5; the second one is 25
\* bytes long uncompressed.
LengthsFiles ==
    <<[name |-> <<97>>, u_len |-> 10, data |-> [i \in 1..10 |-> i]],
      [name |-> <<98>>, u_len |-> 25, data |-> [i \in 1..20 |-> 100 + i]],
      [name |-> <<99>>, u_len |-> 5, data |-> [i \in 1..5 |-> 200 + i]]>>

\* LengthsFiles; an icon and an Info, both deflated; the two kept as they
\* are; and a build.txt in place of the Info.
Archives ==
    LET \* b as one stored block of a raw deflate stream.
        stored(b) == <<1, Len(b), 0, 255 - Len(b), 255>> \o b
        plain_file(name, b) == [name |-> name, u_len |-> Len(b), data |-> b]
        deflated_file(name, b) ==
            [name |-> name, u_len |-> Len(b), data |-> stored(b)]
        icon == <<105, 99, 111, 110, 46, 112, 110, 103>>
        \* author = x, modReferences = Foo@1.2.3 and Bar, side, version = 1.0
        InfoBytes ==
            dotnet_string(<<97, 117, 116, 104, 111, 114>>) \o dotnet_string(<<120>>)
            \o dotnet_string(modReferences) \o dotnet_string(<<70, 111, 111, 64, 49, 46, 50, 46, 51>>)
            \o dotnet_string(<<66, 97, 114>>) \o <<0>>
            \o dotnet_string(<<115, 105, 100, 101>>) \o <<1>>
            \o dotnet_string(<<118, 101, 114, 115, 105, 111, 110>>) \o dotnet_string(<<49, 46, 48>>) \o <<0>>
        \* "author = x\r\nmodReferences = Foo, Bar\n"
        BuildTxtBytes == <<97, 117, 116, 104, 111, 114, 32, 61, 32, 120, 13, 10, 109, 111, 100, 82, 101, 102, 101, 114, 101, 110, 99, 101, 115, 32, 61, 32, 70, 111, 111, 44, 32, 66, 97, 114, 10>>
    IN  {LengthsFiles,
         <<deflated_file(icon, <<7, 8, 9>>), deflated_file(Info, InfoBytes)>>,
         <<plain_file(icon, <<7, 8, 9>>), plain_file(Info, InfoBytes)>>,
         <<plain_file(build_txt, BuildTxtBytes)>>}

\* Every archive, whole and cut at every place, and bytes that are no
\* archive: another magic, and the magic followed by bytes that are no
\* header or no file table.
TmodFiles ==
    LET Cut == UNION {{SubSeq(tmod_bytes(a), 1, n) : n \in 0..Len(tmod_bytes(a))} :
                      a \in Archives}
        Garbage ==
            {<<84, 77, 79, 88, 4, 48, 46, 49, 49>>,
             TMOD \o <<129, 1, 255, 3>>,
             TMOD \o <<2, 48, 46>> \o [i \in 1..HeaderSkip |-> 0]
                  \o <<1, 109, 1, 49, 2, 0, 0, 0, 200, 7, 7>>}
    IN  Cut \cup Garbage

\* Archives for the dependency lists. An Info case is an archive whose Info
\* holds up to MaxFields different fields in some order, with or without the
\* empty tag at its end, together with the names that its modReferences and
\* weakReferences fields list, written without their versions. The fields:
\* modReferences = Foo@1.2.3, Bar; modReferences empty; weakReferences =
\* Baz@0.1; sortAfter = Foo; author = x; homepage = "side"; side = 1; and the
\* flag noCompile. At most one modReferences field is in a case.
MaxFields == 3
InfoCases ==
    LET list(tag, items) ==
            dotnet_string(tag)
            \o blob_of([i \in 1..Len(items) |-> [data |-> dotnet_string(items[i])]])
            \o <<0>>
        Fields ==
            {[kind |-> "hard", names |-> <<<<70, 111, 111>>, <<66, 97, 114>>>>,
              bytes |-> list(modReferences, <<<<70, 111, 111, 64, 49, 46, 50, 46, 51>>, <<66, 97, 114>>>>)],
             [kind |-> "hard", names |-> <<>>, bytes |-> list(modReferences, <<>>)],
             [kind |-> "weak", names |-> <<<<66, 97, 122>>>>,
              bytes |-> list(<<119, 101, 97, 107, 82, 101, 102, 101, 114, 101, 110, 99, 101, 115>>, <<<<66, 97, 122, 64, 48, 46, 49>>>>)],
             [kind |-> "sortAfter", names |-> <<>>,
              bytes |-> list(<<115, 111, 114, 116, 65, 102, 116, 101, 114>>, <<<<70, 111, 111>>>>)],
             [kind |-> "author", names |-> <<>>,
              bytes |-> dotnet_string(<<97, 117, 116, 104, 111, 114>>) \o dotnet_string(<<120>>)],
             [kind |-> "homepage", names |-> <<>>,
              bytes |-> dotnet_string(<<104, 111, 109, 101, 112, 97, 103, 101>>) \o dotnet_string(<<115, 105, 100, 101>>)],
             [kind |-> "side", names |-> <<>>,
              bytes |-> dotnet_string(<<115, 105, 100, 101>>) \o <<1>>],
             [kind |-> "noCompile", names |-> <<>>,
              bytes |-> dotnet_string(<<110, 111, 67, 111, 109, 112, 105, 108, 101>>)]}
        Orders ==
            {fs \in UNION {[1..n -> Fields] : n \in 0..MaxFields} :
                /\ \A i, j \in 1..Len(fs) : i # j => fs[i] # fs[j]
                /\ Cardinality({i \in 1..Len(fs) : fs[i].kind = "hard"}) <= 1}
        names_of(fs, kind) ==
            blob_of([i \in 1..Len(fs) |->
                        [data |-> IF fs[i].kind = kind THEN fs[i].names ELSE <<>>]])
        payload(fs) == blob_of([i \in 1..Len(fs) |-> [data |-> fs[i].bytes]])
        archive(b) == tmod_bytes(<<[name |-> Info, u_len |-> Len(b), data |-> b]>>)
    IN  {[kinds |-> [i \in 1..Len(fs) |-> fs[i].kind],
          hard |-> names_of(fs, "hard"), weak |-> names_of(fs, "weak"),
          bytes |-> archive(payload(fs) \o end)] :
         fs \in Orders, end \in {<<>>, <<0>>}}

\* An archive without Info whose build.txt is
\* "modReferences = Foo@1.2.3, Bar\n"
VersionedBuildTxt ==
    LET b == <<109, 111, 100, 82, 101, 102, 101, 114, 101, 110, 99, 101, 115, 32, 61, 32, 70, 111, 111, 64, 49, 46, 50, 46, 51, 44, 32, 66, 97, 114, 10>>
    IN  tmod_bytes(<<[name |-> build_txt, u_len |-> Len(b), data |-> b]>>)

\* ---------------------------------------------------------- specifications

\* Inputs of the concurrent specifications: chunks and writes of whole lines,
\* among them a join line and a leave line.
LineOk == <<"o", "k", "\n">>
LineJoin == <<"B", " ", "h", "a", "s", " ", "j", "o", "i", "n", "e", "d", "\n">>
LineUp == <<"u", "p", "\n">>
LineLeft == <<"B", " ", "h", "a", "s", " ", "l", "e", "f", "t", "\n">>
StreamChunks == {LineOk, LineJoin \o LineOk}
FileTexts == {LineUp, LineLeft}
ReadChunks == {LineOk, LineOk \o LineJoin \o LineUp}
SnapChunks == {LineOk}
SnapTexts == {LineLeft}

\* Cursors a client may send.
MaxSince == 5
Sinces == (0 - 1)..MaxSince

DockerStepOf(chunks, most) ==
    \/ DockerConnect \/ DockerGetContainer \/ DockerChunkOf(chunks, most)
    \/ DockerStreamError \/ DockerStreamEnd \/ DockerFlush \/ DockerAcquire
    \/ DockerAppend \/ DockerLoad \/ DockerStore \/ DockerRelease
    \/ DockerNotify \/ DockerExcept \/ DockerSleep

DockerStep(chunks) == DockerStepOf(chunks, MaxChunks)

FileStep ==
    \/ FileCheck \/ FileWait \/ FileOpen \/ FileReadline \/ FileAcquire
    \/ FileAppend \/ FileLoad \/ FileStore \/ FileRelease \/ FileNotify
    \/ FileExcept \/ FileSleep

ReqStep(sinces) ==
    \/ AclAcquire(sinces) \/ AclCopy \/ AclRead \/ AclReturn
    \/ ScoAcquire1 \/ ScoBefore \/ ScoSend \/ ScoAcquire2 \/ ScoCopy
    \/ ScoRead \/ ScoReturn \/ ReqDone

\* The two pollers and the game server writing the log file.
Next ==
    \/ DockerStep(StreamChunks)
    \/ FileStep
    \/ ServerWrite(FileTexts)

Spec == Init /\ [][Next]_vars

\* The Docker-log poller and the request thread.
NextRead ==
    \/ DockerStep(ReadChunks)
    \/ ReqStep(Sinces)

SpecRead == Init /\ [][NextRead]_vars

\* The two pollers, the game server and the request thread.
NextSnap ==
    \/ DockerStep(SnapChunks)
    \/ FileStep
    \/ ServerWrite(SnapTexts)
    \/ ReqStep({0})

SpecSnap == Init /\ [][NextSnap]_vars

\* The Docker-log poller alone, with the thread kept running: the handler
\* runs once entered and time.sleep(5) returns.
NextLive == DockerStep(ReadChunks)

SpecLive ==
    /\ Init
    /\ [][NextLive]_vars
    /\ WF_vars(DockerExcept)
    /\ WF_vars(DockerSleep)

\* The Docker-log poller alone, fed chunks that cut the stream at any
\* character: every text of 1 to MaxChunkLen characters of TextAlphabet, and a
\* join line.
MaxChunkLen == 3
TextChunks ==
    LET TextAlphabet == {"a", " ", "\r", "\n"}
    IN  UNION {[1..n -> TextAlphabet] : n \in 1..MaxChunkLen} \cup {LineJoin}

NextDocker == DockerStep(TextChunks)

SpecDocker == Init /\ [][NextDocker]_vars

\* The two pollers fed text with several lines in one chunk or write, among
\* them an empty line and a line of blanks only.
NextSplit ==
    \/ DockerStep({<<"a", "\n", "\n", " ", "\n">> \o LineJoin})
    \/ FileStep
    \/ ServerWrite({LineLeft})

SpecSplit == Init /\ [][NextSplit]_vars

\* The Docker-log poller fed a coloured line whole or cut inside its escape
\* sequence: the stream's text arrives in at most MaxPieces chunks.
MaxPieces == 2
NextAnsi ==
    DockerStepOf({<<"ESC">>,
                  <<"[", "1", "m", "a", "\n">>,
                  <<"ESC", "[", "1", "m">> \o LineJoin}, MaxPieces)

SpecAnsi == Init /\ [][NextAnsi]_vars

\* The Docker-log poller fed a progress line that overwrites itself twice,
\* cut into chunks at any places: a chunk is any run of consecutive characters
\* of the line (or a join line), and at most MaxPieces chunks arrive.
Progress == <<"a", "\r", "b", "\r", "c", "\n">>

NextProgress ==
    LET Pieces(t) == {SubSeq(t, i, j) : i, j \in 1..Len(t)} \ {<<>>}
    IN  DockerStepOf(Pieces(Progress) \cup {LineJoin}, MaxPieces)

SpecProgress == Init /\ [][NextProgress]_vars

\* The Docker-log poller fed the line "ab c" cut into chunks at any places:
\* a chunk is any run of consecutive characters of the line and its \n (or a
\* join line), and at most MaxPieces chunks arrive.
NextPieces ==
    LET line == <<"a", "b", " ", "c", "\n">>
    IN  DockerStepOf(({SubSeq(line, i, j) : i, j \in 1..Len(line)} \ {<<>>})
                     \cup {LineJoin}, MaxPieces)

SpecPieces == Init /\ [][NextPieces]_vars

\* The file poller tailing a log whose line "B has left" the game server
\* writes in up to MaxPieces writes, "B has" and " left\n".
NextPartial ==
    \/ FileStep
    \/ ServerWriteOf({<<"B", " ", "h", "a", "s">>,
                      <<" ", "l", "e", "f", "t", "\n">>}, MaxPieces)

SpecPartial == Init /\ [][NextPartial]_vars

\* The file poller tailing a log that grows by whole lines, among them a
\* blank one, in up to MaxPieces writes.
NextTail ==
    \/ FileStep
    \/ ServerWriteOf({LineUp, <<" ", "\n">> \o LineLeft}, MaxPieces)

SpecTail == Init /\ [][NextTail]_vars

\* The two pollers fed lines without ANSI codes and without \r that have
\* blanks at their ends and inside.
NextNorm ==
    \/ DockerStep({<<" ", "a", " ", "b", " ", "\n">> \o LineJoin})
    \/ FileStep
    \/ ServerWrite({<<"\t">> \o SubSeq(LineLeft, 1, Len(LineLeft) - 1)
                     \o <<" ", "\n">>})

SpecNorm == Init /\ [][NextNorm]_vars

\* The Docker-log poller fed one log line per chunk: join and leave lines in
\* lower, upper and mixed case, lines with two phrases, a phrase with nothing
\* before it, and a line without a phrase.
EventLines ==
    LET UpperChar(c) ==
            IF \E i \in 1..26 : LowerCase[i] = c
            THEN UpperCase[CHOOSE i \in 1..26 : LowerCase[i] = c]
            ELSE c
        Upper(s) == [i \in 1..Len(s) |-> UpperChar(s[i])]
        Has_Left == <<"H", "a", "s", " ", "L", "e", "f", "t">>
    IN
    {<<"B", " ">> \o has_joined,
     <<"d", " ">> \o Upper(has_joined),
     has_joined,
     <<"B", " ">> \o has_left,
     <<"B", " ">> \o Has_Left,
     <<"B", " ">> \o has_disconnected,
     <<"B", " ">> \o has_joined \o <<" ", "C", " ">> \o has_left,
     <<"B", " ">> \o has_left \o <<" ", "C", " ">> \o has_joined,
     <<"B", " ">> \o has_disconnected \o <<" ", "C", " ">> \o has_left,
     <<"o", "k">>}

NextEvent == DockerStep({l \o LF : l \in EventLines})

SpecEvent == Init /\ [][NextEvent]_vars

\* The file poller tailing a log that the game server writes and then starts
\* anew with less text in it.
NextRotate ==
    \/ FileStep
    \/ ServerWrite({LineUp \o LineLeft})
    \/ ServerRotate({LineOk})

SpecRotate == Init /\ [][NextRotate]_vars

\* screen_send called up to MaxSends times with the command "s" or "x y",
\* while the game server starts and stops.
NextScreen ==
    \/ ScreenSend({<<"s">>, <<"x", " ", "y">>})
    \/ ServerFifo

SpecScreen == Init /\ [][NextScreen]_vars

\* parse_tmod_dependencies on a whole archive, on an archive cut short and
\* on bytes that are no archive.
InitMods ==
    /\ InitConsole
    /\ tmod_file \in TmodFiles

NextMods == ModOpen \/ ModTable \/ ModEntries

SpecMods == InitMods /\ [][NextMods]_vars

\* parse_tmod_dependencies on whole archives whose dependency lists carry
\* versions.
InitInfo ==
    /\ InitConsole
    /\ tmod_file \in {c.bytes : c \in InfoCases} \cup {VersionedBuildTxt}

SpecInfo == InitInfo /\ [][NextMods]_vars

\* ------------------------------------------------------------------ claims

\* The two pollers, the game server and the request thread serving every
\* handler that reads the buffer: /api/console/lines, screen_cmd_output,
\* screen_capture and the /api/logs fallback with lines=1 and the default 300.
NextCapture ==
    \/ DockerStep({LineOk})
    \/ FileStep
    \/ ServerWrite({LineLeft})
    \/ ReqStep({0})
    \/ ScreenCapture
    \/ ReadLogs({1, 300})

SpecCapture == Init /\ [][NextCapture]_vars

\* The Docker-log poller and a client that polls /api/console/lines with
\* since = the total of its last response, starting with 0.
NextClient ==
    \/ DockerStepOf({LineOk, LineOk \o LineJoin \o LineUp}, MaxPieces)
    \/ AclAcquire({cursor})
    \/ AclCopy
    \/ AclRead
    \/ AclReturn
    \/ ClientReceive

SpecClient == Init /\ [][NextClient]_vars

Lines(h) == [i \in 1..Len(h) |-> h[i].line]

Sources(h) == {h[i].src : i \in 1..Len(h)}

BagOfSeq(l) == [x \in Range(l) |-> Cardinality({i \in 1..Len(l) : l[i] = x})]

\* Between entering and leaving "with console_lock".
InBlock(pc) == pc \in {"append", "load", "store", "release"}

\* C1: console_seq never decreases and is never reset; each increment adds
\* exactly 1; the counter values taken by the appends are 0, 1, 2, ... with
\* no gap and no reuse; and whenever no poller is inside its with block, the
\* counter equals the number of appends made.
C1_SeqStrictlyIncreasing ==
    [][/\ console_seq' >= console_seq
       /\ console_seq' # console_seq => console_seq' = console_seq + 1
       /\ \A i \in 1..Len(numbers') : numbers'[i] = i - 1
       /\ (~InBlock(pc_d') /\ ~InBlock(pc_f'))
            => /\ console_seq' = Len(appended')
               /\ Len(numbers') = Len(appended')]_vars

C1_Witness ==
    /\ Len(numbers) > MAX_CONSOLE_LINES
    /\ Sources(appended) = {"docker", "file"}
    /\ console_lock = "free"

\* C2: whenever the lock is free to be taken, the buffer holds
\* min(console_seq, MAX_CONSOLE_LINES) lines and the line at index i is the
\* one that took sequence number console_seq - len(console_buffer) + i.
C2_OldestResident ==
    console_lock = "free" =>
        /\ Len(console_buffer) = Min(console_seq, MAX_CONSOLE_LINES)
        /\ \A i \in 1..Len(console_buffer) :
              LET n == console_seq - Len(console_buffer) + (i - 1)
              IN  /\ n + 1 \in 1..Len(appended)
                  /\ n + 1 \in 1..Len(numbers)
                  /\ numbers[n + 1] = n
                  /\ console_buffer[i] = appended[n + 1].line

C2_Witness ==
    /\ console_lock = "free"
    /\ console_seq > MAX_CONSOLE_LINES
    /\ Len(console_buffer) = MAX_CONSOLE_LINES
    /\ Sources(appended) = {"docker", "file"}

\* C3: api_console_lines answers every cursor: the snapshot counter is the
\* counter of the moment of the copy and is returned as total, since is
\* clamped into [total - len(buf), total], the offset into the copy is within
\* the copy, a cursor at or beyond total yields no lines and a cursor at or
\* before the oldest resident line yields the whole copy.
C3_CursorClamped ==
    /\ pc_r = "acl_release" => seq = console_seq
    /\ (pc_r = "done" /\ resp.kind = "lines") =>
          /\ resp.total = seq
          /\ resp.since >= seq - Len(buf)
          /\ resp.since <= seq
          /\ resp.offset \in 0..Len(buf)
          /\ resp.asked >= seq => resp.lines = <<>>
          /\ resp.asked <= seq - Len(buf) => resp.lines = buf

C3_Witness ==
    /\ pc_r = "done"
    /\ resp.kind = "lines"
    /\ seq > MAX_CONSOLE_LINES
    /\ resp.asked < seq - Len(buf)
    /\ Len(resp.lines) = MAX_CONSOLE_LINES

\* C4: for a cursor c between the oldest resident sequence number and total,
\* api_console_lines returns exactly the lines that took the sequence numbers
\* c .. total - 1, in the order they were appended.
C4_LinesSinceCursor ==
    (pc_r = "done" /\ resp.kind = "lines"
        /\ resp.asked >= resp.total - Len(buf) /\ resp.asked <= resp.total) =>
        /\ resp.total <= Len(appended)
        /\ resp.lines = SubSeq(Lines(appended), resp.asked + 1, resp.total)
        /\ \A n \in resp.asked..(resp.total - 1) : numbers[n + 1] = n

C4_Witness ==
    /\ pc_r = "done"
    /\ resp.kind = "lines"
    /\ resp.total > MAX_CONSOLE_LINES
    /\ resp.asked = resp.total - 1
    /\ Len(resp.lines) = 1

\* C5: every (buffer copy, counter) pair a handler has read is a snapshot of
\* one moment: the copy holds min(seq, MAX_CONSOLE_LINES) lines and they are
\* the appends number seq - len(copy) .. seq - 1.
C5_ConsistentSnapshot ==
    pc_r \in {"acl_release", "sco_release2", "done"} =>
        /\ Len(buf) = Min(seq, MAX_CONSOLE_LINES)
        /\ seq <= Len(appended)
        /\ buf = SubSeq(Lines(appended), seq - Len(buf) + 1, seq)

C5_Witness ==
    /\ pc_r \in {"acl_release", "sco_release2"}
    /\ seq >= MAX_CONSOLE_LINES
    /\ Sources(appended) = {"docker", "file"}
    /\ pc_d = "acquire" \/ pc_f = "acquire"

\* C6: once the pollers have appended the K <= MAX_CONSOLE_LINES lines they
\* entered their with blocks for, the buffer holds each of them exactly as
\* often as it was handed over, and console_seq is K.
C6_NoLostAppend ==
    (/\ pc_d \notin {"acquire", "append", "load", "store", "release"}
     /\ pc_f \notin {"acquire", "append", "load", "store", "release"}
     /\ BagCardinality(submitted) <= MAX_CONSOLE_LINES) =>
        /\ BagOfSeq(console_buffer) = submitted
        /\ console_seq = BagCardinality(submitted)

C6_Witness ==
    /\ pc_d \notin {"acquire", "append", "load", "store", "release"}
    /\ pc_f \notin {"acquire", "append", "load", "store", "release"}
    /\ BagCardinality(submitted) = MAX_CONSOLE_LINES
    /\ Sources(appended) = {"docker", "file"}

\* C7: the buffer never holds more than MAX_CONSOLE_LINES entries, and its
\* entries are the most recently appended lines in the order of their append
\* (the entry an append at capacity removes is the oldest one).
C7_BoundedFifo ==
    /\ Len(console_buffer) <= MAX_CONSOLE_LINES
    /\ Len(console_buffer) = Min(Len(appended), MAX_CONSOLE_LINES)
    /\ console_buffer = SubSeq(Lines(appended),
                               Len(appended) - Len(console_buffer) + 1,
                               Len(appended))

C7_Witness ==
    /\ Len(appended) > MAX_CONSOLE_LINES
    /\ Len(console_buffer) = MAX_CONSOLE_LINES

\* C8: the Docker-log poller never leaves its loop, and whenever an error
\* has been raised inside its try block it connects again.
C8_PollerRetries ==
    /\ [](pc_d # "dead")
    /\ [](pc_d \in {"except", "dead"} => <>(pc_d = "connect"))

C8_Witness ==
    /\ pc_d = "connect"
    /\ faults > 0

\* C9: a notification call that raises does not interrupt ingestion: after
\* check_player_event the Docker-log poller goes on with the lines left in
\* pending on the same connection, and the file poller goes on reading the
\* open file with its offset kept.
C9_NotifyFailureIgnored ==
    [][/\ pc_d = "notify" =>
            /\ pc_d' \in {"notify", "flush"}
            /\ pending' = pending
            /\ client' = client
       /\ pc_f = "notify" =>
            /\ pc_f' \in {"notify", "readline"}
            /\ pos_f' = pos_f
            /\ last_pos' = last_pos]_vars

\* The \n-terminated lines of a text, without their terminators.
RECURSIVE StreamLines(_)
StreamLines(t) ==
    IF ~Contains(t, LF) THEN <<>>
    ELSE LET parts == SplitFirst(t, LF)
         IN  <<parts[1]>> \o StreamLines(parts[2])

\* A line without the \r of a \r\n terminator.
DropCR(l) ==
    IF l # <<>> /\ l[Len(l)] = "\r" THEN SubSeq(l, 1, Len(l) - 1) ELSE l

NonBlank(l) == l # <<>>

\* The text of every non-blank line of a stream.
LineTexts(t) ==
    LET ls == StreamLines(t)
    IN  SelectSeq([i \in 1..Len(ls) |-> Strip(DropCR(ls[i]))], NonBlank)

\* \r occurs only as the first character of a \r\n terminator.
CROnlyInCRLF(t) ==
    \A i \in 1..Len(t) : t[i] = "\r" => (i < Len(t) /\ t[i + 1] = "\n")

\* C10: when the poller has processed everything the stream delivered on the
\* connection, every non-blank line of the stream, terminated by \n or by
\* \r\n, is an entry the poller appended.
C10_EveryLineAppended ==
    (pc_d = "iter" /\ CROnlyInCRLF(Decode(stream))) =>
        emitted = LineTexts(Decode(stream))

\* The lines of history h appended by poller s, in the order of their append.
SrcLines(h, s) ==
    LET FromSrc(e) == e.src = s
    IN  Lines(SelectSeq(h, FromSrc))

IsPrefix(p, l) == Len(p) <= Len(l) /\ p = SubSeq(l, 1, Len(p))

IsSuffix(p, l) ==
    Len(p) <= Len(l) /\ p = SubSeq(l, Len(l) - Len(p) + 1, Len(l))

\* The text of every non-blank line of a log file, ANSI codes removed.
FileLines(t) ==
    LET ls == StreamLines(t)
    IN  SelectSeq([i \in 1..Len(ls) |-> Strip(ANSI_ESCAPE_sub(ls[i]))], NonBlank)

NoNewline(l) == \A i \in 1..Len(l) : l[i] # "\n"

\* C12: when the Docker-log poller has processed a chunk of several
\* \n-terminated lines, it has appended one entry for each line that is not
\* blank, in order, and none for a blank line; and no entry appended by
\* either poller contains a \n.
C12_ChunkSplitIntoLines ==
    /\ pc_d = "iter" =>
          /\ emitted = LineTexts(Decode(stream))
          /\ IsSuffix(emitted, SrcLines(appended, "docker"))
    /\ \A i \in 1..Len(appended) : NoNewline(appended[i].line)

C12_Witness ==
    /\ pc_d = "iter"
    /\ Len(StreamLines(Decode(stream))) = 4
    /\ Len(emitted) = 2
    /\ "file" \in Sources(appended)

\* C13: no entry appended to console_buffer by either poller contains the
\* character ESC, however the stream's bytes are divided into chunks.
C13_NoEscapeInEntries ==
    \A i \in 1..Len(appended) :
        \A j \in 1..Len(appended[i].line) : appended[i].line[j] # "ESC"

\* The text after the last \r of a line (the whole line if it has none).
AfterLastCR(l) ==
    LET at == {i \in 1..Len(l) : l[i] = "\r"}
    IN  IF at = {} THEN l
        ELSE SubSeq(l, (CHOOSE i \in at : \A j \in at : i >= j) + 1, Len(l))

\* What is on show for every \n-terminated line of a text once each \r has
\* moved the cursor back to column 0; lines left blank are not listed.
ShownLines(t) ==
    LET ls == StreamLines(t)
    IN  SelectSeq([i \in 1..Len(ls) |-> Strip(AfterLastCR(ls[i]))], NonBlank)

\* C14: when the Docker-log poller has processed what the stream delivered,
\* the entry it appended for each \n-terminated line is the text after the
\* last \r of that line, one entry per line, at whatever places the line was
\* cut into chunks.
C14_TextAfterLastCR ==
    pc_d = "iter" => emitted = ShownLines(Decode(stream))

C14_Witness ==
    /\ pc_d = "iter"
    /\ faults = 0
    /\ delivered = MaxPieces
    /\ stream = Progress
    /\ emitted = << <<"c">> >>

\* No ANSI code and no carriage return.
Plain(t) == \A i \in 1..Len(t) : t[i] \notin {"ESC", "\r"}

Blank == {" ", "\t", "\n", "\r", "\f"}

RECURSIVE TrimLeft(_)
TrimLeft(l) == IF l # <<>> /\ Head(l) \in Blank THEN TrimLeft(Tail(l)) ELSE l

RECURSIVE TrimRight(_)
TrimRight(l) ==
    IF l # <<>> /\ l[Len(l)] \in Blank
    THEN TrimRight(SubSeq(l, 1, Len(l) - 1)) ELSE l

\* A line without the whitespace at its two ends.
Trim(l) == TrimLeft(TrimRight(l))

HasText(l) == Trim(l) # <<>>

\* The lines of a text that are not blank, as they stand.
RawLines(t) == SelectSeq(StreamLines(t), HasText)

\* The lines of a text that are not blank, without the whitespace at their ends.
TrimmedLines(t) ==
    LET ls == RawLines(t) IN [i \in 1..Len(ls) |-> Trim(ls[i])]

\* The file poller has read LOG_FILE to its end.
FileReadToEnd == pc_f = "sleep" /\ last_pos = Len(file_content) /\ last_pos > 0

\* C15 as stated: the entry appended for a \n-terminated line without ANSI
\* codes and without \r equals the line's text character for character.
C15_LineUnchanged ==
    /\ (pc_d = "iter" /\ Plain(Decode(stream))) =>
          emitted = RawLines(Decode(stream))
    /\ (FileReadToEnd /\ Plain(file_content)) =>
          tailed = RawLines(file_content)

\* C15 as amended: the entry appended for a \n-terminated line without ANSI
\* codes and without \r equals the line's text without the whitespace at its
\* two ends (and a line that is blank gets no entry).
C15_LineTrimmedOnly ==
    /\ (pc_d = "iter" /\ Plain(Decode(stream))) =>
          emitted = TrimmedLines(Decode(stream))
    /\ (FileReadToEnd /\ Plain(file_content)) =>
          tailed = TrimmedLines(file_content)

C15_Witness ==
    /\ pc_d = "iter"
    /\ Len(emitted) = 2
    /\ emitted[1] # RawLines(Decode(stream))[1]
    /\ FileReadToEnd
    /\ Len(tailed) = 1
    /\ tailed[1] # RawLines(file_content)[1]

\* Two characters that are the same letter in either case, or the same
\* character.
SameLetter(c, e) ==
    c = e \/ \E n \in 1..26 : {c, e} = {UpperCase[n], LowerCase[n]}

\* The places of line where phrase stands, in any letter case.
PlacesOf(line, phrase) ==
    {i \in 1..(Len(line) - Len(phrase) + 1) :
        \A k \in 1..Len(phrase) : SameLetter(line[i + k - 1], phrase[k])}

Mentions(line, phrase) == PlacesOf(line, phrase) # {}

\* The events to notify for a line: the first rule that matches decides.
ExpectedEvents(line) ==
    IF Mentions(line, has_joined) THEN <<"join">>
    ELSE IF Mentions(line, has_left) \/ Mentions(line, has_disconnected)
         THEN <<"leave">>
    ELSE <<>>

\* The calls a step of the Docker-log poller added to its history.
NewCalls == SubSeq(notified'.docker, Len(notified.docker) + 1, Len(notified'.docker))

\* The Docker-log poller runs check_player_event for its line in this step.
DockerNotifies == pc_d = "notify" /\ pc_d' # "notify"

\* C16: for every line check_player_event makes at most one notification: a
\* join notification if the line contains "has joined" in any letter case,
\* otherwise a leave notification if it contains "has left" or "has
\* disconnected" in any letter case, otherwise none; a line with a join and a
\* leave phrase is notified as a join only.
C16_FirstRuleWins ==
    [][DockerNotifies =>
          /\ IsPrefix(notified.docker, notified'.docker)
          /\ Len(NewCalls) <= 1
          /\ [i \in 1..Len(NewCalls) |-> NewCalls[i].event] = ExpectedEvents(line_d)]_vars

C16_Witness ==
    /\ Len(appended) = 1
    /\ Mentions(appended[1].line, has_joined)
    /\ Mentions(appended[1].line, has_left)
    /\ Len(notified.docker) = 1
    /\ notified.docker[1].event = "join"

\* The phrase a line is matched by.
MatchedPhrase(line) ==
    IF Mentions(line, has_joined) THEN has_joined
    ELSE IF Mentions(line, has_left) THEN has_left
    ELSE has_disconnected

\* The last whitespace-delimited token of the text that precedes the matched
\* phrase in the line, "Someone" if there is none.
ExpectedName(line) ==
    LET at == PlacesOf(line, MatchedPhrase(line))
        first == CHOOSE i \in at : \A j \in at : i <= j
        before == SubSeq(line, 1, first - 1)
        ends == {i \in 1..Len(before) : before[i] \notin Blank}
        last == CHOOSE i \in ends : \A j \in ends : i >= j
        starts == {i \in 1..last : \A k \in i..last : before[k] \notin Blank}
    IN  IF ends = {} THEN Someone
        ELSE SubSeq(before, CHOOSE i \in starts : \A j \in starts : i <= j, last)

\* C17: for every line matched by a join or leave phrase in any letter case,
\* the name put in the notification is the last whitespace-delimited token
\* that precedes the matched phrase in the line as it was written, and
\* "Someone" only when no token precedes the phrase.
C17_NameBeforePhrase ==
    [][DockerNotifies =>
          \A i \in 1..Len(NewCalls) : NewCalls[i].name = ExpectedName(line_d)]_vars

\* C18: whenever LOG_FILE has become shorter than the offset the file poller
\* stored, the next poll cycle starts reading at offset 0, so that the lines
\* of the new content are appended.
C18_TruncationResetsOffset ==
    [][(pc_f = "open" /\ pc_f' = "readline" /\ last_pos > Len(file_content))
          => pos_f' = 0]_vars

\* The whole archives among the files.
WholeFiles == {tmod_bytes(a) : a \in Archives}

\* C19: for any bytes that are not a well-formed archive (another magic, or
\* the magic with the header, the entry table, the data blob or the Info
\* payload cut short or garbage), parse_tmod_dependencies ends without
\* raising and returns the empty list.
C19_MalformedGivesEmpty ==
    (pc_m = "done" /\ tmod_file \notin WholeFiles) => deps = <<>>

RECURSIVE CLenBefore(_, _)
CLenBefore(table, i) ==
    IF i <= 1 THEN 0 ELSE table[i - 1].c_len + CLenBefore(table, i - 1)

\* The place in the bytes of archive a where its file table ends.
TableEnd(a) == Len(tmod_bytes(a)) - Len(blob_of(a))

\* C20: in the parsed file table the offset of entry i is the sum of the
\* compressed lengths of the entries before it (0 for the first one), and
\* the data blob starts right after the last table entry: cutting the bytes
\* at file_data_start + offset for the compressed length gives each file
\* of a whole archive its own bytes.
C20_CumulativeOffsets ==
    pc_m = "entries" =>
        /\ \A i \in 1..Len(entries) :
               entries[i].offset = CLenBefore(entries, i)
        /\ \A a \in Archives :
               (IsPrefix(tmod_raw, tmod_bytes(a)) /\ Len(tmod_raw) >= TableEnd(a))
               => file_data_start = TableEnd(a)
        /\ \A a \in Archives :
               tmod_raw = tmod_bytes(a) =>
                   /\ Len(entries) = Len(a)
                   /\ \A i \in 1..Len(a) :
                          Slice(tmod_raw,
                                file_data_start + entries[i].offset,
                                file_data_start + entries[i].offset
                                    + entries[i].c_len) = a[i].data

\* Compressed lengths 10, 20 and 5 give the third entry the offset 30.
C20_Witness ==
    /\ pc_m = "entries"
    /\ tmod_raw = tmod_bytes(LengthsFiles)
    /\ [i \in 1..Len(entries) |-> entries[i].c_len] = <<10, 20, 5>>
    /\ entries[3].offset = 30

\* C21: every name parse_tmod_dependencies returns is a bare module name,
\* its "@version" removed, whether the list was read from the Info entry or
\* from build.txt.
C21_BareNames ==
    pc_m = "done" => \A i \in 1..Len(deps) : 64 \notin Range(deps[i])

\* C22: for every well-formed sequence of Info fields (lists, strings, the
\* side byte and flags without a value, in any order) _parse_info_binary
\* returns the names of the modReferences list as the hard dependencies and
\* the names of the weakReferences list as the optional ones, and
\* parse_tmod_dependencies returns the hard ones only.
C22_FieldsAligned ==
    \A c \in InfoCases :
        (pc_m = "done" /\ faults = 0 /\ tmod_file = c.bytes) =>
            /\ info = <<c.hard, c.weak>>
            /\ deps = c.hard

\* The flag noCompile, then the side byte, then modReferences, all parsed.
C22_Witness ==
    \E c \in InfoCases :
        /\ pc_m = "done"
        /\ tmod_file = c.bytes
        /\ c.kinds = <<"noCompile", "side", "hard">>
        /\ deps = <<<<70, 111, 111>>, <<66, 97, 114>>>>

\* C23: screen_send makes one attempt and returns: False when the FIFO is
\* missing or has no reader, True only when the command and a newline have
\* been written to the FIFO; a failed send is not tried again.
C23_SingleAttempt ==
    [][sends' = sends + 1 =>
          /\ sent' \in BOOLEAN
          /\ attempts' = 1
          /\ (fifo # "reader" => (sent' = FALSE /\ stdin' = stdin))
          /\ (sent' = TRUE => stdin' = stdin \o cmd_s' \o <<"\n">>)]_vars

\* Two sends of which the first failed for want of a reader: the game server
\* has received the second command only.
C23_Witness ==
    /\ sends = 2
    /\ faults = 0
    /\ sent = TRUE
    /\ stdin = <<"x", " ", "y", "\n">>

\* C24: a line of the container log that arrives in several chunks is
\* appended once, as one entry that is the text of its pieces put together,
\* and not before its \n has arrived: at every moment the entries appended on
\* the connection are the first of the stream's \n-terminated lines, and once
\* the poller has processed what was delivered they are all of them; text
\* that no \n has followed yet has no entry.
C24_WholeLineOnce ==
    /\ IsPrefix(emitted, TrimmedLines(Decode(stream)))
    /\ pc_d = "iter" => emitted = TrimmedLines(Decode(stream))

\* The line "ab c" delivered as "ab" and " c\n".
C24_Witness ==
    /\ pc_d = "iter"
    /\ delivered = 2
    /\ stream = <<"a", "b", " ", "c", "\n">>
    /\ emitted = << <<"a", "b", " ", "c">> >>
    /\ Len(appended) = 1

\* C25: when the file poller reads LOG_FILE while the last line is written
\* in part only (no \n yet), the fragment is held back and not appended, and
\* the line is appended once, whole, when the writer has completed it: the
\* entries the poller appended on its pass over the file are \n-terminated
\* lines of the file.
C25_FragmentHeld ==
    IsPrefix(tailed, TrimmedLines(file_content))

\* C26: while LOG_FILE only grows by whole lines and no error occurs, the
\* offset the file poller stores at the end of a poll cycle is the end of the
\* file it has read, every non-blank line of the file has then been appended
\* once, and at every moment the entries the poller has appended are the
\* first non-blank lines of the file in file order (none skipped, none read
\* again).
C26_OffsetFollowsFile ==
    [][faults' = 0 =>
          /\ IsPrefix(SrcLines(appended', "file"), TrimmedLines(file_content'))
          /\ (pc_f = "readline" /\ pc_f' = "sleep") =>
                /\ last_pos' = Len(file_content)
                /\ SrcLines(appended, "file") = TrimmedLines(file_content)]_vars

\* Two writes read in two poll cycles: the second cycle has started at the
\* offset the first one stored and has read the line written since.
C26_Witness ==
    /\ faults = 0
    /\ writes = 2
    /\ pc_f = "readline"
    /\ last_pos > 0
    /\ pos_f > last_pos
    /\ pos_f = Len(file_content)
    /\ Len(SrcLines(appended, "file")) = 2

C28_ReadsUnderLock ==
    [][(\/ pc_r = "acl_copy" /\ pc_r' = "acl_read"
        \/ pc_r = "sco_copy" /\ pc_r' = "sco_read"
        \/ pc_r = "idle" /\ pc_r' = "done")
          => /\ console_lock = "req"
             /\ ~InBlock(pc_d)
             /\ ~InBlock(pc_f)]_vars

\* C29: the lines a client gets that polls with since = 0 and then with the
\* total of its last response are appended lines with increasing sequence
\* numbers (none twice, in append order); each response brings the lines
\* numbered from the previous total on when at most MAX_CONSOLE_LINES lines
\* were appended since, and otherwise the MAX_CONSOLE_LINES newest ones, the
\* lines left out being evicted ones.
C29_PollingClient ==
    [][/\ \A i \in 1..Len(received') :
             /\ received'[i].n + 1 \in 1..Len(appended')
             /\ appended'[received'[i].n + 1].line = received'[i].line
             /\ numbers'[received'[i].n + 1] = received'[i].n
             /\ \A j \in 1..(i - 1) : received'[j].n < received'[i].n
       /\ (pc_r = "done" /\ pc_r' = "idle") =>
             LET total == cursor'
                 first == IF total - cursor <= MAX_CONSOLE_LINES THEN cursor
                          ELSE total - MAX_CONSOLE_LINES
             IN  /\ total >= cursor
                 /\ Len(received') = Len(received) + (total - first)
                 /\ \A i \in 1..(total - first) :
                       /\ received'[Len(received) + i].n = first + (i - 1)
                       /\ received'[Len(received) + i].line = appended[first + i].line
                 /\ \A i \in 1..Len(received) : received'[i] = received[i]
                 /\ \A n \in cursor..(first - 1) : n < console_seq - MAX_CONSOLE_LINES]_vars

C29_Witness ==
    /\ pc_r = "idle"
    /\ cursor = 2 * MAX_CONSOLE_LINES + 2
    /\ Len(received) = 1 + MAX_CONSOLE_LINES + 1
    /\ received[2].n = 2

\* C30: over the whole run the file poller has appended each line of the log
\* file at most once: its entries, in order, are the first non-blank lines of
\* the file, also after an error was raised in a poll cycle.
C30_AppendedOnce ==
    /\ Len(SrcLines(appended, "file")) <= Len(TrimmedLines(file_content))
    /\ IsPrefix(SrcLines(appended, "file"), TrimmedLines(file_content))

====
